---- MODULE Spec2Model ----
(***************************************************************************)
(* Model of the response-verification engine of New_Pet_Api:              *)
(* tools/assertions/base_assertions.py (BaseResponseAsserts),             *)
(* tools/assertions/todos_assertions.py (TodosAsserts) and the            *)
(* pydantic descriptors they validate against.                            *)
(*                                                                         *)
(* Two specifications share the variables:                                 *)
(*   Spec      one invocation of comprehensive_checks, one step per        *)
(*             primitive it calls, in program order;                       *)
(*   SpecPrim  direct calls of the assertion primitives and of the         *)
(*             query-filter verifier on a response;                        *)
(*   SpecXml   loading of the assertion modules (which resolves the XSD    *)
(*             paths) and direct calls of the XML primitives.              *)
(***************************************************************************)
EXTENDS Integers, Sequences, FiniteSets, TLC

VARIABLES response, checks, cls, params, pc, is_xml, trace, result, files, loaded,
          environ, dotenv, sent

vars == <<response, checks, cls, params, pc, is_xml, trace, result, files, loaded,
          environ, dotenv, sent>>

(***************************************************************************)
(* Bounds of the model.                                                    *)
(***************************************************************************)
\* generated JSON documents hold the integers 0..MaxInt
MaxInt == 1
\* response.elapsed ranges over 1..MaxElapsed seconds
MaxElapsed == 2
\* a configured response_time ceiling ranges over 0..MaxCeiling seconds
MaxCeiling == 1

(***************************************************************************)
(* Parsed JSON values (what response.json() returns).  Every value has    *)
(* the same three fields so that values of different Python types can be   *)
(* compared: t is the Python type, v the scalar payload (an int, 0/1 for   *)
(* a bool, an index into StrText for a str), items the (key, value) pairs  *)
(* of a dict in insertion order, or the members of a list, each paired     *)
(* with the empty key.                                                     *)
(***************************************************************************)
JInt(n) == [t |-> "int", v |-> n, items |-> <<>>]
JBool(b) == [t |-> "bool", v |-> IF b THEN 1 ELSE 0, items |-> <<>>]
JStr(i) == [t |-> "str", v |-> i, items |-> <<>>]
JNull == [t |-> "null", v |-> 0, items |-> <<>>]
JList(s) == [t |-> "list", v |-> 0, items |-> [i \in DOMAIN s |-> <<"", s[i]>>]]
JDict(s) == [t |-> "dict", v |-> 0, items |-> s]

\* the text of the string values used in the documents
StrText == <<"a", "b", "X", "59", "">>

IsDict(d) == d.t = "dict"
IsList(d) == d.t = "list"

Range(s) == {s[i] : i \in DOMAIN s}

\* Python: key in data   (data a dict)
HasKey(d, key) == \E i \in DOMAIN d.items : d.items[i][1] = key

\* Python: data[key]     (data a dict holding key)
GetKey(d, key) == d.items[CHOOSE i \in DOMAIN d.items : d.items[i][1] = key][2]

\* Python: list(data.values()) of a dict, the members of a list
Values(d) == [i \in DOMAIN d.items |-> d.items[i][2]]

\* Python: list(data.keys())
DictKeys(d) == [i \in DOMAIN d.items |-> d.items[i][1]]

(***************************************************************************)
(* Python's == between two parsed values: bool is a subclass of int        *)
(* (True == 1), lists compare element by element, dicts compare as         *)
(* mappings whatever the insertion order, any other pair of types differs. *)
(***************************************************************************)
RECURSIVE PyEq(_, _)
PyEq(a, b) ==
    CASE a.t \in {"int", "bool"} /\ b.t \in {"int", "bool"} -> a.v = b.v
      [] a.t = "str" /\ b.t = "str" -> a.v = b.v
      [] a.t = "null" /\ b.t = "null" -> TRUE
      [] a.t = "list" /\ b.t = "list" ->
            /\ Len(a.items) = Len(b.items)
            /\ \A i \in DOMAIN a.items : PyEq(a.items[i][2], b.items[i][2])
      [] a.t = "dict" /\ b.t = "dict" ->
            /\ Range(DictKeys(a)) = Range(DictKeys(b))
            /\ \A k \in Range(DictKeys(a)) : PyEq(GetKey(a, k), GetKey(b, k))
      [] OTHER -> FALSE

(***************************************************************************)
(* The three recursive searches of the code base.                          *)
(***************************************************************************)
RECURSIVE find_key_values(_, _)
find_key_values_buggy(data, key) ==
    IF IsDict(data)
      THEN IF HasKey(data, key) THEN <<GetKey(data, key)>> ELSE <<>>
      ELSE <<>>

\* assert_body_key_values.find_key_values: matches, in the order appended
find_key_values(data, key) ==
    LET RECURSIVE Each(_)
        Each(s) == IF s = <<>> THEN <<>>
                   ELSE find_key_values(Head(s), key) \o Each(Tail(s))
    IN  IF IsDict(data)
          THEN (IF HasKey(data, key) THEN <<GetKey(data, key)>> ELSE <<>>)
               \o Each(Values(data))
          ELSE IF IsList(data) THEN Each(Values(data))
          ELSE <<>>

\* get_all_key_values._find_values_recursively: found_list, in the order appended
RECURSIVE _find_values_recursively(_, _)
_find_values_recursively(current_data, target_key) ==
    LET RECURSIVE Each(_)
        Each(s) == IF s = <<>> THEN <<>>
                   ELSE _find_values_recursively(Head(s), target_key) \o Each(Tail(s))
    IN  IF IsDict(current_data)
          THEN (IF HasKey(current_data, target_key)
                  THEN <<GetKey(current_data, target_key)>> ELSE <<>>)
               \o Each(Values(current_data))
          ELSE IF IsList(current_data) THEN Each(Values(current_data))
          ELSE <<>>

\* an id search that descends into the values before it takes the key
RECURSIVE extract_ids_children_first(_)
extract_ids_children_first(json_data) ==
    LET RECURSIVE Each(_)
        Each(s) == IF s = <<>> THEN <<>>
                   ELSE extract_ids_children_first(Head(s)) \o Each(Tail(s))
    IN  IF IsDict(json_data)
          THEN Each(Values(json_data))
               \o (IF HasKey(json_data, "id") THEN <<GetKey(json_data, "id")>> ELSE <<>>)
          ELSE IF IsList(json_data) THEN Each(Values(json_data))
          ELSE <<>>

\* get_available_ids.extract_ids: ids_list, in the order appended
RECURSIVE extract_ids(_)
extract_ids(json_data) ==
    LET RECURSIVE Each(_)
        Each(s) == IF s = <<>> THEN <<>>
                   ELSE extract_ids(Head(s)) \o Each(Tail(s))
    IN  IF IsDict(json_data)
          THEN (IF HasKey(json_data, "id") THEN <<GetKey(json_data, "id")>> ELSE <<>>)
               \o Each(Values(json_data))
          ELSE IF IsList(json_data) THEN Each(Values(json_data))
          ELSE <<>>

(***************************************************************************)
(* XML element trees (what ET.fromstring returns): tag, text (the empty    *)
(* sequence when the element has no text, Python's None) and children in   *)
(* document order.                                                         *)
(***************************************************************************)
Elem(tag, text, children) == [tag |-> tag, text |-> text, children |-> children]

\* root.findall(".//tag"): every descendant of root with that tag, in
\* document order; the root itself is never among them
RECURSIVE findall(_, _)
findall(root, tag) ==
    LET RECURSIVE Each(_)
        Each(s) == IF s = <<>> THEN <<>>
                   ELSE (IF Head(s).tag = tag THEN <<Head(s)>> ELSE <<>>)
                        \o findall(Head(s), tag) \o Each(Tail(s))
    IN  Each(root.children)

\* elem.text or ""
TextOf(elem) == IF elem.text = <<>> THEN "" ELSE elem.text[1]

\* str(expected_value)
PyStr(x) ==
    CASE x.t = "int" -> ToString(x.v)
      [] x.t = "bool" -> (IF x.v = 1 THEN "True" ELSE "False")
      [] x.t = "str" -> StrText[x.v]
      [] x.t = "null" -> "None"
      [] OTHER -> "<container>"

\* Python's == between an XML text (a str) and an expected value
PyEqText(text, x) == x.t = "str" /\ StrText[x.v] = text

(***************************************************************************)
(* Response bodies.  response.text is JSON text (json() returns doc),      *)
(* well-formed XML text (fromstring returns tree) or neither; no text is   *)
(* both.  xsd_ok says whether the tree conforms to the XSD file of the     *)
(* entity family (the XSD documents are resources outside the code).       *)
(***************************************************************************)
NoTree == Elem("", <<>>, <<>>)
JsonBody(d) == [kind |-> "json", doc |-> d, tree |-> NoTree, xsd_ok |-> FALSE]
XmlBody(t, ok) == [kind |-> "xml", doc |-> JNull, tree |-> t, xsd_ok |-> ok]
BadBody == [kind |-> "bad", doc |-> JNull, tree |-> NoTree, xsd_ok |-> FALSE]

(***************************************************************************)
(* Header names and values.  A header value is the sequence of the pieces  *)
(* of its text, so that Python's substring test ("application/xml" in      *)
(* content_type) and its equality test are different operations.           *)
(***************************************************************************)
APPLICATION_JSON == <<"application/json">>
APPLICATION_XML == <<"application/xml">>

\* Python: piece in value   (piece one of the media types above)
Contains(value, piece) == \E i \in DOMAIN value : <<value[i]>> = piece

\* str.lower() on the header names the model uses
Lower(name) ==
    CASE name \in {"Content-Type", "content-type", "CONTENT-TYPE"} -> "content-type"
      [] name \in {"Location", "location"} -> "location"
      [] name \in {"Accept", "accept", "ACCEPT"} -> "accept"
      [] name \in {"X-CHALLENGER", "X-Challenger", "x-challenger"} -> "x-challenger"
      [] name \in {"Authorization", "authorization"} -> "authorization"
      [] name \in {"User-Agent", "user-agent"} -> "user-agent"
      [] OTHER -> name

\* httpx.Headers: a mapping from lower-case names to values, looked up
\* case-insensitively.  headers[n] is <<>> (absent) or <<value>>.
HeaderIn(headers, name) == Lower(name) \in DOMAIN headers /\ headers[Lower(name)] # <<>>
HeaderGet(headers, name) == IF HeaderIn(headers, name) THEN headers[Lower(name)] ELSE <<>>

\* a plain dict (sequence of (key, value) pairs): d.get(key), <<>> for None
DictGet(d, key) ==
    IF \E i \in DOMAIN d : d[i][1] = key
      THEN <<d[CHOOSE i \in DOMAIN d : d[i][1] = key][2]>>
      ELSE <<>>

\* a success test that takes every status below 500 for a success
is_success_below_500(r) == r.status_code >= 200 /\ r.status_code <= 499

\* response.is_success: 2xx
is_success(r) == r.status_code >= 200 /\ r.status_code <= 299

(***************************************************************************)
(* Outcome of one call: err is "" when the call returns normally and the   *)
(* kind of error raised otherwise, att the attachments made to the report  *)
(* sink during the call (in order), info the per-key detail the error      *)
(* message carries.                                                        *)
(***************************************************************************)
Passed(att) == [err |-> "", att |-> att, info |-> <<>>]
Raised(e, att, info) == [err |-> e, att |-> att, info |-> info]
Detail(key, found, texts) == [key |-> key, found |-> found, texts |-> texts]

\* [f(x) for x in s]
MapSeq(s, f(_)) == [i \in DOMAIN s |-> f(s[i])]

(***************************************************************************)
(* Assertion primitives of BaseResponseAsserts.                            *)
(***************************************************************************)
assert_status_code(r, expected_status) ==
    IF r.status_code # expected_status
      THEN Raised("StatusMismatch", <<"Status Code Mismatch">>, <<>>)
      ELSE Passed(<<>>)

assert_response_time(r, max_time) ==
    IF r.elapsed > max_time
      THEN Raised("TimeExceeded", <<"Response Time", "Response Time Exceeded">>, <<>>)
      ELSE Passed(<<"Response Time">>)

assert_headers_present(r, expected_headers) ==
    LET Missing(h) == ~HeaderIn(r.headers, h)
        missing_headers == SelectSeq(expected_headers, Missing)
        Entry(h) == Detail(h, <<>>, <<>>)
    IN  IF missing_headers # <<>>
          THEN Raised("HeaderMissing", <<"Missing Headers">>, MapSeq(missing_headers, Entry))
          ELSE Passed(<<>>)

assert_header_values(r, expected_headers) ==
    LET Differs(e) == HeaderGet(r.headers, e[1]) # <<e[2]>>
        mismatches == SelectSeq(expected_headers, Differs)
        Entry(e) == Detail(e[1], <<>>, <<>>)
    IN  IF mismatches # <<>>
          THEN Raised("HeaderValueMismatch", <<"Header Value Mismatches">>,
                      MapSeq(mismatches, Entry))
          ELSE Passed(<<>>)

\* Python: k in text, for the texts of StrText and the keys of the model:
\* none of these texts holds a key as a proper part
SubstrOf(k, text) == k = text

\* Python: k in body, body a parsed JSON value that supports "in"
KeyIn(k, body) ==
    CASE IsDict(body) -> HasKey(body, k)
      [] IsList(body) -> \E i \in DOMAIN body.items :
                            body.items[i][2].t = "str" /\ StrText[body.items[i][2].v] = k
      [] OTHER -> SubstrOf(k, StrText[body.v])

assert_body_keys_present(r, expected_keys) ==
    LET body == r.body.doc
        Missing(k) == ~KeyIn(k, body)
        missing_keys == SelectSeq(expected_keys, Missing)
        Entry(k) == Detail(k, <<>>, <<>>)
    IN  IF r.body.kind # "json" THEN Raised("BodyNotParsable", <<>>, <<>>)
        ELSE IF body.t \in {"int", "bool", "null"} /\ expected_keys # <<>>
          \* "k not in body": argument of type 'int' is not iterable
          THEN Raised("TypeError", <<>>, <<>>)
        ELSE IF missing_keys # <<>>
          THEN IF IsDict(body)
                 THEN Raised("BodyKeyMissing", <<"Missing Body Keys">>,
                             MapSeq(missing_keys, Entry))
                 \* body.keys() in the attachment text: a list or str has none
                 ELSE Raised("AttributeError", <<>>, <<>>)
        ELSE Passed(<<>>)

assert_body_key_values_all(r, expected_values) ==
    LET body == r.body.doc
        Bad(e) == LET matches == find_key_values(body, e[1])
                  IN  matches = <<>> \/ ~\A i \in DOMAIN matches : PyEq(matches[i], e[2])
        mismatches == SelectSeq(expected_values, Bad)
        Entry(e) == Detail(e[1], find_key_values(body, e[1]), <<>>)
    IN  IF r.body.kind # "json" THEN Raised("BodyNotParsable", <<"Invalid JSON">>, <<>>)
        ELSE IF mismatches # <<>>
          THEN Raised("BodyKeyValueMismatch",
                      <<"Body Key Value Mismatches", "Response Body">>,
                      MapSeq(mismatches, Entry))
        ELSE Passed(<<>>)

\* info: one entry per failing key; found is empty for "key not found in any
\* record" and the matches for "expected ..., found values ..."
assert_body_key_values(r, expected_values) ==
    LET body == r.body.doc
        Bad(e) == LET matches == find_key_values(body, e[1])
                  IN  matches = <<>> \/ ~\E i \in DOMAIN matches : PyEq(matches[i], e[2])
        mismatches == SelectSeq(expected_values, Bad)
        Entry(e) == Detail(e[1], find_key_values(body, e[1]), <<>>)
    IN  IF r.body.kind # "json" THEN Raised("BodyNotParsable", <<"Invalid JSON">>, <<>>)
        ELSE IF mismatches # <<>>
          THEN Raised("BodyKeyValueMismatch",
                      <<"Body Key Value Mismatches", "Response Body">>,
                      MapSeq(mismatches, Entry))
        ELSE Passed(<<>>)

\* a tag check that counts descendants only
assert_xml_tag_present_descendants(r, expected_tags) ==
    LET root == r.body.tree
        Missing(tag) == findall(root, tag) = <<>>
        errors == SelectSeq(expected_tags, Missing)
        Entry(tag) == Detail(tag, <<>>, <<>>)
    IN  IF r.body.kind # "xml" THEN Raised("BodyNotParsable", <<"Invalid XML">>, <<>>)
        ELSE IF errors # <<>>
          THEN Raised("TagMissing", <<"XML Body">>, MapSeq(errors, Entry))
        ELSE Passed(<<>>)

\* a tag check that looks the tags up whether or not the body parsed
assert_xml_tag_present_unparsed(r, expected_tags) ==
    LET root == r.body.tree
        Missing(tag) == root.tag # tag /\ findall(root, tag) = <<>>
        errors == SelectSeq(expected_tags, Missing)
        Entry(tag) == Detail(tag, <<>>, <<>>)
    IN  IF errors # <<>>
          THEN Raised("TagMissing", <<"XML Body">>, MapSeq(errors, Entry))
        ELSE Passed(<<>>)

assert_xml_tag_present(r, expected_tags) ==
    LET root == r.body.tree
        Missing(tag) == root.tag # tag /\ findall(root, tag) = <<>>
        errors == SelectSeq(expected_tags, Missing)
        Entry(tag) == Detail(tag, <<>>, <<>>)
    IN  IF r.body.kind # "xml" THEN Raised("BodyNotParsable", <<"Invalid XML">>, <<>>)
        ELSE IF errors # <<>>
          THEN Raised("TagMissing", <<"XML Body">>, MapSeq(errors, Entry))
        ELSE Passed(<<>>)

\* a tag-value check that wants every occurrence to match
assert_xml_tag_value_all(r, tag_value_pairs) ==
    LET root == r.body.tree
        actual_values(tag) == MapSeq(findall(root, tag), TextOf)
        Bad(e) == LET av == actual_values(e[1])
                  IN  av = <<>> \/ ~\A i \in DOMAIN av : av[i] = PyStr(e[2])
        errors == SelectSeq(tag_value_pairs, Bad)
        Entry(e) == Detail(e[1], <<>>, actual_values(e[1]))
    IN  IF r.body.kind # "xml" THEN Raised("BodyNotParsable", <<"Invalid XML">>, <<>>)
        ELSE IF errors # <<>>
          THEN Raised("TagValueMismatch", <<"XML Body", "XML Tag Value Mismatches">>,
                      MapSeq(errors, Entry))
        ELSE Passed(<<>>)

\* info: one entry per failing tag; texts is empty for "not found" and the
\* actual values for "has no value matching"
assert_xml_tag_value(r, tag_value_pairs) ==
    LET root == r.body.tree
        actual_values(tag) == MapSeq(findall(root, tag), TextOf)
        Bad(e) == LET av == actual_values(e[1])
                  IN  av = <<>> \/ ~\E i \in DOMAIN av : av[i] = PyStr(e[2])
        errors == SelectSeq(tag_value_pairs, Bad)
        Entry(e) == Detail(e[1], <<>>, actual_values(e[1]))
    IN  IF r.body.kind # "xml" THEN Raised("BodyNotParsable", <<"Invalid XML">>, <<>>)
        ELSE IF errors # <<>>
          THEN Raised("TagValueMismatch", <<"XML Body", "XML Tag Value Mismatches">>,
                      MapSeq(errors, Entry))
        ELSE Passed(<<>>)

\* xsd_file: [name, readable]; an XSD that cannot be opened and a tree that
\* does not conform end in the same except clause and the same raise,
\* AssertionError("XML does not match schema: ...") after the attachment
\* "Invalid XML Schema"
assert_xml_schema(r, xsd_file) ==
    IF r.body.kind # "xml" THEN Raised("BodyNotParsable", <<"Invalid XML">>, <<>>)
    ELSE IF ~xsd_file.readable \/ ~r.body.xsd_ok
      THEN Raised("SchemaValidationError", <<"Invalid XML Schema">>, <<>>)
    ELSE Passed(<<"XSD Schema File">>)

(***************************************************************************)
(* The pydantic descriptors (schema/todos_model.py, challenges_model.py)   *)
(* and pydantic's validation of a parsed body against them (lax mode: an   *)
(* int field takes an int, a bool or a numeric str; a bool field a bool or *)
(* the ints 0 and 1; a str field only a str).                              *)
(***************************************************************************)
Field(name, type, required) == [name |-> name, type |-> type, required |-> required]

TodoSchema ==
    [fields |-> <<Field("id", "int", TRUE), Field("title", "str", TRUE),
                  Field("description", "optstr", FALSE),
                  Field("doneStatus", "bool", TRUE)>>,
     extra |-> "forbid"]

TodosSchema == [name |-> "TodosSchema", collection |-> "todos", item |-> TodoSchema]

ChallengeSchema ==
    [fields |-> <<Field("id", "int", TRUE), Field("name", "str", TRUE),
                  Field("description", "optstr", FALSE),
                  Field("status", "bool", TRUE)>>,
     extra |-> "forbid"]

ChallengesSchema ==
    [name |-> "ChallengesSchema", collection |-> "challenges", item |-> ChallengeSchema]

NumericText == {"59"}

TypeOk(type, x) ==
    CASE type = "int" -> x.t \in {"int", "bool"} \/ (x.t = "str" /\ StrText[x.v] \in NumericText)
      [] type = "bool" -> x.t = "bool" \/ (x.t = "int" /\ x.v \in {0, 1})
      [] type = "str" -> x.t = "str"
      [] type = "optstr" -> x.t \in {"str", "null"}
      [] OTHER -> FALSE

RecordOk(rec, model) ==
    /\ IsDict(rec)
    /\ \A i \in DOMAIN model.fields :
          LET f == model.fields[i]
          IN  IF HasKey(rec, f.name) THEN TypeOk(f.type, GetKey(rec, f.name))
              ELSE ~f.required
    /\ model.extra = "forbid" =>
          \A k \in Range(DictKeys(rec)) : \E i \in DOMAIN model.fields : model.fields[i].name = k

\* schema(**body) raises no ValidationError (body a dict)
ModelOk(body, schema) ==
    /\ HasKey(body, schema.collection)
    /\ IsList(GetKey(body, schema.collection))
    /\ \A i \in DOMAIN GetKey(body, schema.collection).items :
          RecordOk(GetKey(body, schema.collection).items[i][2], schema.item)

assert_json_schema(r, schema) ==
    LET body == r.body.doc
    IN  IF r.body.kind # "json" THEN Raised("BodyNotParsable", <<>>, <<>>)
        \* schema(**body): argument after ** must be a mapping
        ELSE IF ~IsDict(body) THEN Raised("TypeError", <<>>, <<>>)
        ELSE IF ~ModelOk(body, schema)
          THEN Raised("SchemaValidationError",
                      <<"Invalid Data", "Schema Validation Error">>, <<>>)
        ELSE Passed(<<>>)

(***************************************************************************)
(* get_all_key_values: err/att as for the primitives; when it returns,     *)
(* info is all_found_values, one entry per requested key in the order of   *)
(* data_keys_to_extract (found for a JSON body, texts for an XML body).    *)
(***************************************************************************)
get_all_key_values(r, data_keys_to_extract) ==
    LET content_type == IF HeaderIn(r.headers, "content-type")
                          THEN HeaderGet(r.headers, "content-type")[1] ELSE <<>>
        keys == MapSeq(data_keys_to_extract, Head)
        Empty(k) == Detail(k, <<>>, <<>>)
        XmlEntry(k) == Detail(k, <<>>, MapSeq(findall(r.body.tree, k), TextOf))
        JsonEntry(k) == Detail(k, _find_values_recursively(r.body.doc, k), <<>>)
    IN  IF Contains(content_type, APPLICATION_XML)
          THEN IF r.body.kind # "xml"
                 THEN Raised("BodyNotParsable", <<"Invalid XML">>, <<>>)
                 ELSE [err |-> "", att |-> <<>>, info |-> MapSeq(keys, XmlEntry)]
        ELSE IF Contains(content_type, APPLICATION_JSON)
          THEN IF r.body.kind # "json"
                 THEN Raised("BodyNotParsable", <<"Invalid JSON Response">>, <<>>)
                 ELSE [err |-> "", att |-> <<>>, info |-> MapSeq(keys, JsonEntry)]
        ELSE [err |-> "", att |-> <<"Unsupported Content Type">>,
              info |-> MapSeq(keys, Empty)]

(***************************************************************************)
(* BaseClient.get_available_ids, from the response of its GET on: info is  *)
(* the list of ids returned, under the key "id".                           *)
(***************************************************************************)
get_available_ids(r) ==
    LET content_type == IF HeaderIn(r.headers, "content-type")
                          THEN HeaderGet(r.headers, "content-type")[1] ELSE <<>>
    IN  IF ~is_success(r) THEN Raised("HTTPStatusError", <<>>, <<>>)
        ELSE IF Contains(content_type, APPLICATION_JSON)
          THEN IF r.body.kind # "json"
                 THEN Raised("ValueError", <<"Invalid JSON">>, <<>>)
                 ELSE [err |-> "", att |-> <<"Extracted IDs">>,
                       info |-> <<Detail("id", extract_ids(r.body.doc), <<>>)>>]
        ELSE IF Contains(content_type, APPLICATION_XML)
          THEN IF r.body.kind # "xml"
                 THEN Raised("ValueError", <<"Invalid XML">>, <<>>)
                 ELSE [err |-> "", att |-> <<"Extracted IDs">>,
                       info |-> <<Detail("id", <<>>,
                                         MapSeq(findall(r.body.tree, "id"), TextOf))>>]
        ELSE Raised("ValueError", <<>>, <<>>)

(***************************************************************************)
(* TodosAsserts.check_query_filter.                                        *)
(***************************************************************************)
\* found_value == expected_value, for an entry of all_found_values
Differing(entry, expected_value) ==
    LET NeJ(x) == ~PyEq(x, expected_value)
        NeT(x) == ~PyEqText(x, expected_value)
    IN  [found |-> SelectSeq(entry.found, NeJ), texts |-> SelectSeq(entry.texts, NeT)]

FirstOf(s) == IF s = <<>> THEN <<>> ELSE <<Head(s)>>

check_query_filter_any(r, p) ==
    LET values == get_all_key_values(r, p)
        Bad(i) == LET e == values.info[i]
                  IN  /\ e.found \o e.texts # <<>>
                      /\ Differing(e, p[i][2]).found = e.found
                      /\ Differing(e, p[i][2]).texts = e.texts
        bad == {i \in DOMAIN p : Bad(i)}
        first == CHOOSE i \in bad : \A j \in bad : i <= j
    IN  IF values.err # "" THEN values
        ELSE IF bad # {}
          THEN Raised("FilterViolation", <<"Filter Params">>,
                      <<Detail(p[first][1], FirstOf(values.info[first].found),
                               FirstOf(values.info[first].texts))>>)
        ELSE Passed(<<"Filter Params">>)

\* info of a FilterViolation: the key and the one value the message names
check_query_filter(r, p) ==
    LET values == get_all_key_values(r, p)
        Diff(i) == Differing(values.info[i], p[i][2])
        Bad(i) == Diff(i).found \o Diff(i).texts # <<>>
        bad == {i \in DOMAIN p : Bad(i)}
        first == CHOOSE i \in bad : \A j \in bad : i <= j
        KeyDetails(n) == [i \in 1..n |-> "Key Details"]
    IN  IF values.err # ""
          THEN Raised(values.err,
                      <<"Filter Params">> \o values.att \o <<"Extraction Failure Body">>,
                      <<>>)
        ELSE IF bad # {}
          THEN Raised("FilterViolation",
                      <<"Filter Params">> \o values.att \o <<"Extracted Values">>
                          \o KeyDetails(first) \o <<"Key Error">>,
                      <<Detail(p[first][1], FirstOf(Diff(first).found),
                               FirstOf(Diff(first).texts))>>)
        ELSE Passed(<<"Filter Params">> \o values.att \o <<"Extracted Values">>
                        \o KeyDetails(Len(p)))

(***************************************************************************)
(* The assertion classes: the class attributes comprehensive_checks reads  *)
(* through self.  <<>> is None.                                            *)
(***************************************************************************)
TODOS_XSD == [name |-> "todos.xsd", readable |-> TRUE]

BaseResponseAsserts == [name |-> "BaseResponseAsserts", schema |-> <<>>, xsd_path |-> <<>>]

TodosAsserts ==
    [name |-> "TodosAsserts", schema |-> <<TodosSchema>>, xsd_path |-> <<TODOS_XSD>>]

\* defines neither schema nor xsd_path: both are the base class's None
ChallengesAsserts == [name |-> "ChallengesAsserts", schema |-> <<>>, xsd_path |-> <<>>]

\* ChallengesAsserts.assert_json_schema (overrides the base method)
ChallengesAsserts_assert_json_schema(r, schema) ==
    LET body == r.body.doc
    IN  IF r.body.kind # "json" THEN Raised("BodyNotParsable", <<>>, <<>>)
        ELSE IF ~IsDict(body) THEN Raised("TypeError", <<>>, <<>>)
        ELSE IF ~ModelOk(body, schema)
          THEN Raised("SchemaValidationError",
                      <<"Invalid Data", "Schema Validation Error">>, <<>>)
        ELSE Passed(<<>>)

\* ChallengesAsserts.assert_xml_tag_present (overrides the base method; its
\* parameter is one tag).  is_list: the argument is a list, as the runner
\* passes checks["key_present"]: root.tag differs from any list and
\* findall(".//['challenges']") raises SyntaxError (invalid descendant).
ChallengesAsserts_assert_xml_tag_present(r, expected_tag, is_list) ==
    LET root == r.body.tree
    IN  IF r.body.kind # "xml" THEN Raised("BodyNotParsable", <<"Invalid XML">>, <<>>)
        ELSE IF is_list THEN Raised("SyntaxError", <<>>, <<>>)
        ELSE IF root.tag # expected_tag /\ findall(root, expected_tag) = <<>>
          THEN Raised("TagMissing", <<"XML Body">>, <<Detail(expected_tag, <<>>, <<>>)>>)
        ELSE Passed(<<>>)

\* self.assert_json_schema / self.assert_xml_tag_present of a class, called
\* as the runner calls them
Self_assert_json_schema(c, r, schema) ==
    IF c.name = "ChallengesAsserts" THEN ChallengesAsserts_assert_json_schema(r, schema)
    ELSE assert_json_schema(r, schema)

Self_assert_xml_tag_present(c, r, expected_tags) ==
    IF c.name = "ChallengesAsserts"
      THEN ChallengesAsserts_assert_xml_tag_present(r, expected_tags, TRUE)
    ELSE assert_xml_tag_present(r, expected_tags)

(***************************************************************************)
(* checks.get(field) as a condition: None (<<>>), 0, False, [] and {} are  *)
(* all false.                                                              *)
(***************************************************************************)
TruthyNum(o) == o # <<>> /\ o[1] # 0
TruthyFlag(o) == o # <<>> /\ o[1]
TruthySeq(o) == o # <<>> /\ o[1] # <<>>

(***************************************************************************)
(* comprehensive_checks, one action per statement that calls a primitive.  *)
(* trace records the calls made so far; pc is the statement to run next,   *)
(* "done" after a normal return, "raised" once an error has propagated.    *)
(***************************************************************************)
Frame == UNCHANGED <<response, checks, cls, params, files, loaded, environ, dotenv, sent>>

\* a runner that goes on to the next statement after a failed check
Call_no_abort(step, name, res, next) ==
    /\ trace' = Append(trace, [step |-> step, call |-> name, err |-> res.err, att |-> res.att])
    /\ result' = res
    /\ pc' = next

Call(step, name, res, next) ==
    /\ trace' = Append(trace, [step |-> step, call |-> name, err |-> res.err, att |-> res.att])
    /\ result' = res
    /\ pc' = IF res.err = "" THEN next ELSE "raised"

Skip(next) ==
    /\ pc' = next
    /\ UNCHANGED <<trace, result>>

IsXmlResponse(request_headers) ==
    /\ HeaderIn(response.headers, "content-type")
    /\ Contains(HeaderGet(response.headers, "content-type")[1], APPLICATION_XML)

\* is_xml = checks["request_headers"] is not None
\*          and checks["request_headers"].get("Accept") == "application/xml"
IsXmlRequest(request_headers) ==
    /\ request_headers # <<>>
    /\ DictGet(request_headers[1], "Accept") = <<APPLICATION_XML>>

CheckStatusCode ==
    /\ pc = "status_code"
    /\ IF TruthyNum(checks.status_code)
         THEN Call("status_code", "assert_status_code",
                   assert_status_code(response, checks.status_code[1]), "response_time")
         ELSE Skip("response_time")
    /\ UNCHANGED is_xml
    /\ Frame

CheckResponseTime ==
    /\ pc = "response_time"
    /\ IF TruthyNum(checks.response_time)
         THEN Call("response_time", "assert_response_time",
                   assert_response_time(response, checks.response_time[1]), "headers_present")
         ELSE Skip("headers_present")
    /\ UNCHANGED is_xml
    /\ Frame

CheckHeadersPresent ==
    /\ pc = "headers_present"
    /\ IF TruthySeq(checks.headers_present)
         THEN Call("headers_present", "assert_headers_present",
                   assert_headers_present(response, checks.headers_present[1]), "header_values")
         ELSE Skip("header_values")
    /\ UNCHANGED is_xml
    /\ Frame

CheckHeaderValues ==
    /\ pc = "header_values"
    /\ IF TruthySeq(checks.header_values)
         THEN Call("header_values", "assert_header_values",
                   assert_header_values(response, checks.header_values[1]), "is_success")
         ELSE Skip("is_success")
    /\ UNCHANGED is_xml
    /\ Frame

\* if response.is_success: is_xml = ...
DetermineFormat ==
    /\ pc = "is_success"
    /\ IF is_success(response)
         THEN /\ is_xml' = IsXmlRequest(checks.request_headers)
              /\ Skip("content_type")
         ELSE /\ UNCHANGED is_xml
              /\ Skip("done")
    /\ Frame

\* a schema branch that validates without asserting the content type
CheckContentType_skipped ==
    /\ pc = "content_type"
    /\ IF TruthyFlag(checks.schema) THEN Skip("schema") ELSE Skip("key_present")
    /\ UNCHANGED is_xml
    /\ Frame

\* if checks.get("schema"): self.assert_header_values(response, {"content-type": ...})
CheckContentType ==
    /\ pc = "content_type"
    /\ IF TruthyFlag(checks.schema)
         THEN Call("content_type", "assert_header_values",
                   assert_header_values(response,
                       << <<"content-type",
                            IF is_xml THEN APPLICATION_XML ELSE APPLICATION_JSON>> >>),
                   "schema")
         ELSE Skip("key_present")
    /\ UNCHANGED is_xml
    /\ Frame

\* the rest of the schema branch: validate against the class's descriptor,
\* or raise ValueError when the class has none
CheckSchema ==
    /\ pc = "schema"
    /\ IF is_xml
         THEN IF cls.xsd_path # <<>>
                THEN Call("schema", "assert_xml_schema",
                          assert_xml_schema(response, cls.xsd_path[1]), "key_present")
                ELSE Call("schema", "raise ValueError",
                          Raised("SchemaNotConfigured", <<>>, <<>>), "key_present")
         ELSE IF cls.schema # <<>>
                THEN Call("schema", "assert_json_schema",
                          Self_assert_json_schema(cls, response, cls.schema[1]),
                          "key_present")
                ELSE Call("schema", "raise ValueError",
                          Raised("SchemaNotConfigured", <<>>, <<>>), "key_present")
    /\ UNCHANGED is_xml
    /\ Frame

\* a key/tag presence step whose failure does not stop the runner
CheckKeyPresent_no_abort ==
    /\ pc = "key_present"
    /\ IF TruthySeq(checks.key_present)
         THEN IF is_xml
                THEN Call_no_abort("key_present", "assert_xml_tag_present",
                          Self_assert_xml_tag_present(cls, response, checks.key_present[1]),
                          "key_value")
                ELSE Call_no_abort("key_present", "assert_body_keys_present",
                          assert_body_keys_present(response, checks.key_present[1]),
                          "key_value")
         ELSE Skip("key_value")
    /\ UNCHANGED is_xml
    /\ Frame

CheckKeyPresent ==
    /\ pc = "key_present"
    /\ IF TruthySeq(checks.key_present)
         THEN IF is_xml
                THEN Call("key_present", "assert_xml_tag_present",
                          Self_assert_xml_tag_present(cls, response, checks.key_present[1]),
                          "key_value")
                ELSE Call("key_present", "assert_body_keys_present",
                          assert_body_keys_present(response, checks.key_present[1]), "key_value")
         ELSE Skip("key_value")
    /\ UNCHANGED is_xml
    /\ Frame

CheckKeyValue ==
    /\ pc = "key_value"
    /\ IF TruthySeq(checks.key_value)
         THEN IF is_xml
                THEN Call("key_value", "assert_xml_tag_value",
                          assert_xml_tag_value(response, checks.key_value[1]), "done")
                ELSE Call("key_value", "assert_body_key_values",
                          assert_body_key_values(response, checks.key_value[1]), "done")
         ELSE Skip("done")
    /\ UNCHANGED is_xml
    /\ Frame

(***************************************************************************)
(* Inputs.  The documents are those of the tests and of the scenarios of   *)
(* the specification, and (for the primitives) every document of a family  *)
(* generated from the keys "id" and "a" over the scalars 0..MaxInt, True.  *)
(***************************************************************************)
\* <<k1, v1>>, <<k2, v2>>, ... as a dict
Rec(pairs) == JDict(pairs)

TodoA == Rec(<< <<"id", JInt(59)>>, <<"title", JStr(1)>>, <<"doneStatus", JBool(TRUE)>> >>)
TodoB == Rec(<< <<"id", JInt(2)>>, <<"title", JStr(2)>>, <<"doneStatus", JBool(FALSE)>> >>)

\* {"todos":[{"id":59,"title":"a","doneStatus":true},{"id":2,"title":"b","doneStatus":false}]}
DocTodos == Rec(<< <<"todos", JList(<<TodoA, TodoB>>)>> >>)

\* {"todos":[{"id":60}]}: the todos key, records that do not fit TodoSchema
DocTodosUnfit == Rec(<< <<"todos", JList(<<Rec(<< <<"id", JInt(60)>> >>)>>)>> >>)

\* {"challenges":[{"id":59,"name":"X","description":null,"status":false}]}
DocChallenges ==
    Rec(<< <<"challenges",
           JList(<<Rec(<< <<"id", JInt(59)>>, <<"name", JStr(3)>>,
                          <<"description", JNull>>, <<"status", JBool(FALSE)>> >>)>>)>> >>)

\* occurrences [5, 5, 7] of "id"
Doc557 ==
    Rec(<< <<"todos", JList(<<Rec(<< <<"id", JInt(5)>> >>), Rec(<< <<"id", JInt(5)>> >>),
                              Rec(<< <<"id", JInt(7)>> >>)>>)>> >>)

\* {"a": {"id": {"id": 5}}}: an "id" whose value is a mapping holding "id"
DocNested == Rec(<< <<"a", Rec(<< <<"id", Rec(<< <<"id", JInt(5)>> >>)>> >>)>> >>)

Text(x) == <<x>>

\* <todos><todo><id>59</id><title>a</title><doneStatus>true</doneStatus></todo></todos>
XmlTodos ==
    Elem("todos", <<>>,
         <<Elem("todo", <<>>,
                <<Elem("id", Text("59"), <<>>), Elem("title", Text("a"), <<>>),
                  Elem("doneStatus", Text("true"), <<>>)>>)>>)

\* <todo><id>60</id></todo>
XmlTodo60 == Elem("todo", <<>>, <<Elem("id", Text("60"), <<>>)>>)

\* <challenges><challenge><id>59</id><name>X</name><status>false</status></challenge></challenges>
XmlChallenges ==
    Elem("challenges", <<>>,
         <<Elem("challenge", <<>>,
                <<Elem("id", Text("59"), <<>>), Elem("name", Text("X"), <<>>),
                  Elem("status", Text("false"), <<>>)>>)>>)

RunnerBodies ==
    {JsonBody(DocTodos), JsonBody(DocTodosUnfit), JsonBody(DocChallenges),
     XmlBody(XmlTodos, TRUE), XmlBody(XmlTodo60, FALSE), XmlBody(XmlChallenges, TRUE),
     BadBody}

Headers(ct) == [n \in {"content-type"} |-> ct]

ContentTypes == {<<>>, <<APPLICATION_JSON>>, <<APPLICATION_XML>>}

Response(status, elapsed, ct, body) ==
    [status_code |-> status, elapsed |-> elapsed, headers |-> Headers(ct), body |-> body]

RunnerResponses ==
    {Response(st, el, ct, b) : st \in {200, 404}, el \in 1..MaxElapsed,
                               ct \in ContentTypes, b \in RunnerBodies}

Some(S) == {<<x>> : x \in S}
None == <<>>

ChecksBags ==
    [status_code : {None} \cup Some({0, 200, 404}),
     response_time : {None} \cup Some(0..MaxCeiling),
     headers_present : {None} \cup Some({<<"Content-Type">>}),
     header_values : {None} \cup Some({<< <<"Content-Type", APPLICATION_JSON>> >>}),
     schema : Some(BOOLEAN),
     key_present : {None} \cup Some({<<"todos">>, <<"challenges">>}),
     key_value : {None} \cup Some({<< <<"id", JInt(59)>> >>}),
     request_headers : {None} \cup Some({<< <<"X-Challenger", <<"test_token">> >>,
                                            <<"Accept", APPLICATION_XML>> >>,
                                         << <<"Accept", APPLICATION_JSON>> >>,
                                         << <<"accept", APPLICATION_XML>> >>})]

NoChecks ==
    [status_code |-> None, response_time |-> None, headers_present |-> None,
     header_values |-> None, schema |-> <<FALSE>>, key_present |-> None,
     key_value |-> None, request_headers |-> None]

\* the XSD resources next to xsd_paths.py and what the file system holds of
\* each: "ok" (exists and opens), "unreadable" (exists, open() fails),
\* "missing"
XsdNames == {"challenges.xsd", "todos.xsd"}
AllOk == [n \in XsdNames |-> "ok"]

Modules == {"base_assertions", "todos_assertions", "challenges_assertions"}

\* the collection key a test class of the entity family asks for
EntityKey(c) == IF c.name = "ChallengesAsserts" THEN <<"challenges">> ELSE <<"todos">>

Init ==
    /\ response \in RunnerResponses
    /\ checks \in ChecksBags
    /\ cls \in {BaseResponseAsserts, TodosAsserts, ChallengesAsserts}
    /\ checks.key_present # None => checks.key_present[1] = EntityKey(cls)
    /\ files = AllOk
    /\ loaded = Modules
    /\ environ = <<"t0">>
    /\ dotenv = <<"t0">>
    /\ sent = <<>>
    /\ params = <<>>
    /\ pc = "status_code"
    /\ is_xml = FALSE
    /\ trace = <<>>
    /\ result = Passed(<<>>)

Next ==
    \/ CheckStatusCode
    \/ CheckResponseTime
    \/ CheckHeadersPresent
    \/ CheckHeaderValues
    \/ DetermineFormat
    \/ CheckContentType
    \/ CheckSchema
    \/ CheckKeyPresent
    \/ CheckKeyValue

Spec == Init /\ [][Next]_vars

(***************************************************************************)
(* Direct calls of the primitives (as the tests make them) on one          *)
(* response, with params the expectation: assert_body_keys_present gets    *)
(* its keys, the others the mapping.                                       *)
(***************************************************************************)
Scalars == {JInt(n) : n \in 0..MaxInt} \cup {JBool(TRUE)}

GenKeys == {"id", "a"}

Gen1 ==
    Scalars
    \cup {JDict(<<>>), JList(<<>>)}
    \cup {Rec(<< <<k, x>> >>) : k \in GenKeys, x \in Scalars}
    \cup {Rec(<< <<"id", x>>, <<"a", y>> >>) : x \in Scalars, y \in Scalars}
    \cup {JList(<<x>>) : x \in Scalars}
    \cup {JList(<<x, y>>) : x \in Scalars, y \in Scalars}

Gen1Records == {Rec(<< <<k, x>> >>) : k \in GenKeys, x \in Scalars}

Gen2 ==
    {Rec(<< <<k, x>> >>) : k \in GenKeys, x \in Gen1}
    \cup {Rec(<< <<"id", x>>, <<"a", y>> >>) : x \in Scalars, y \in Gen1}
    \cup {Rec(<< <<"a", y>>, <<"id", x>> >>) : x \in Scalars, y \in Gen1}
    \cup {JList(<<x>>) : x \in Gen1}
    \cup {JList(<<x, y>>) : x \in Gen1Records, y \in Gen1}

\* a record without the field / with the field set to x (appended when new)
Without(rec, name) ==
    LET Keep(e) == e[1] # name IN JDict(SelectSeq(rec.items, Keep))

With(rec, name, x) == JDict(Without(rec, name).items \o << <<name, x>> >>)

ChallengeA ==
    Rec(<< <<"id", JInt(59)>>, <<"name", JStr(3)>>, <<"description", JNull>>,
           <<"status", JBool(FALSE)>> >>)

\* values of every JSON type, to put where another type is declared
AnyValues == {JInt(0), JInt(1), JStr(1), JStr(4), JBool(TRUE), JNull, JList(<<>>)}

\* the bodies {collection: [record]} for a conforming record changed in one
\* place
OneChange(collection, rec, names) ==
    {Rec(<< <<collection, JList(<<r>>)>> >>) :
        r \in {Without(rec, n) : n \in names}
              \cup {With(rec, n, x) : n \in names \cup {"description", "extra"},
                                     x \in AnyValues}}

ChangedBodies ==
    OneChange("todos", TodoA, {"id", "title", "doneStatus"})
    \cup OneChange("challenges", ChallengeA, {"id", "name", "status"})

PrimBodies ==
    {JsonBody(d) : d \in Gen1 \cup Gen2 \cup ChangedBodies
                        \cup {DocTodos, DocTodosUnfit, DocChallenges, Doc557, DocNested}}
    \cup {XmlBody(XmlTodos, TRUE), BadBody}

\* a content-type value that carries a parameter
APPLICATION_JSON_CHARSET == <<"application/json", "; charset=utf-8">>

PrimResponses ==
    {Response(200, 1, ct, b) : ct \in ContentTypes \cup {<<APPLICATION_JSON_CHARSET>>},
                               b \in PrimBodies}

ParamSets ==
    {<< <<k, x>> >> : k \in GenKeys, x \in Scalars}
    \cup {<< <<"id", JInt(59)>> >>, << <<"id", JInt(60)>> >>, << <<"id", JInt(5)>> >>,
          << <<"id", JStr(4)>> >>, << <<"doneStatus", JBool(TRUE)>> >>,
          << <<"todos", JInt(0)>> >>,
          << <<"id", JInt(1)>>, <<"a", JInt(1)>> >>,
          << <<"a", JInt(0)>>, <<"id", JInt(0)>> >>,
          << <<"doneStatus", JBool(TRUE)>>, <<"id", JInt(59)>> >>}

InitPrim ==
    /\ response \in PrimResponses
    /\ checks = NoChecks
    /\ cls = TodosAsserts
    /\ files = AllOk
    /\ loaded = Modules
    /\ environ = <<"t0">>
    /\ dotenv = <<"t0">>
    /\ sent = <<>>
    /\ params \in ParamSets
    /\ pc = "idle"
    /\ is_xml = FALSE
    /\ trace = <<>>
    /\ result = Passed(<<>>)

Return(name, res) ==
    /\ pc = "idle"
    /\ pc' = "returned"
    /\ trace' = <<[step |-> "", call |-> name, err |-> res.err, att |-> res.att]>>
    /\ result' = res
    /\ UNCHANGED <<response, checks, cls, params, is_xml, files, loaded, environ, dotenv, sent>>

\* the same, with step the descriptor or file the call was given
ReturnAs(step, name, res) ==
    /\ pc = "idle"
    /\ pc' = "returned"
    /\ trace' = <<[step |-> step, call |-> name, err |-> res.err, att |-> res.att]>>
    /\ result' = res
    /\ UNCHANGED <<response, checks, cls, params, is_xml, files, loaded, environ, dotenv, sent>>

CallBodyKeysPresent ==
    Return("assert_body_keys_present",
           assert_body_keys_present(response, MapSeq(params, Head)))

CallBodyKeyValues ==
    Return("assert_body_key_values", assert_body_key_values(response, params))

\* the search assert_body_key_values makes for each expected key (info: the
\* matches per key), on a body that parsed
CallFindKeyValues ==
    /\ response.body.kind = "json"
    /\ LET Entry(e) == Detail(e[1], find_key_values(response.body.doc, e[1]), <<>>)
       IN  Return("find_key_values",
                  [err |-> "", att |-> <<>>, info |-> MapSeq(params, Entry)])

CallGetAllKeyValues ==
    Return("get_all_key_values", get_all_key_values(response, params))

CallCheckQueryFilter ==
    Return("check_query_filter", check_query_filter(response, params))

\* assert_json_schema of the base class and of ChallengesAsserts, with one of
\* the two descriptors
CallJsonSchema ==
    \E schema \in {TodosSchema, ChallengesSchema} :
        \/ ReturnAs(schema.name, "assert_json_schema", assert_json_schema(response, schema))
        \/ ReturnAs(schema.name, "ChallengesAsserts.assert_json_schema",
                    ChallengesAsserts_assert_json_schema(response, schema))

CallGetAvailableIds ==
    Return("get_available_ids", get_available_ids(response))

NextPrim ==
    \/ CallJsonSchema
    \/ CallGetAvailableIds
    \/ CallBodyKeysPresent
    \/ CallBodyKeyValues
    \/ CallFindKeyValues
    \/ CallGetAllKeyValues
    \/ CallCheckQueryFilter

SpecPrim == InitPrim /\ [][NextPrim]_vars

(***************************************************************************)
(* Loading of the assertion modules and direct calls of the XML            *)
(* primitives.  Importing a module runs its class bodies and evaluates the *)
(* default arguments of its functions, and with them XSDPaths.<member>.path.*)
(***************************************************************************)
\* XSDPaths.path: the value of the member, FileNotFoundError when
\* os.path.exists says no
XSDPaths_path(name) ==
    IF files[name] = "missing" THEN Raised("FileNotFoundError", <<>>, <<>>)
    ELSE Passed(<<>>)

\* the file a path names, as open() finds it when the validation runs
XsdFile(name) == [name |-> name, readable |-> files[name] = "ok"]

\* import of a module: done, or the exception of its top-level code
Load(module, res) ==
    /\ pc = "idle"
    /\ module \notin loaded
    /\ IF res.err = ""
         THEN /\ loaded' = loaded \cup {module}
              /\ UNCHANGED <<pc, trace, result>>
         ELSE /\ pc' = "raised"
              /\ trace' = <<[step |-> "import", call |-> module, err |-> res.err,
                             att |-> res.att]>>
              /\ result' = res
              /\ UNCHANGED loaded
    /\ UNCHANGED <<response, checks, cls, params, is_xml, files, environ, dotenv, sent>>

\* base_assertions.py: def assert_xml_schema(..., xsd_file=XSDPaths.CHALLENGES_XSD.path)
LoadBaseAssertions == Load("base_assertions", XSDPaths_path("challenges.xsd"))

\* todos_assertions.py: class TodosAsserts: xsd_path = XSDPaths.TODOS_XSD.path
LoadTodosAssertions ==
    /\ "base_assertions" \in loaded
    /\ Load("todos_assertions", XSDPaths_path("todos.xsd"))

\* challenges_assertions.py: no XSD path is read
LoadChallengesAssertions ==
    /\ "base_assertions" \in loaded
    /\ Load("challenges_assertions", Passed(<<>>))

CallXmlTagPresent ==
    /\ "base_assertions" \in loaded
    /\ ReturnAs("", "assert_xml_tag_present",
                assert_xml_tag_present(response, MapSeq(params, Head)))

CallXmlTagValue ==
    /\ "base_assertions" \in loaded
    /\ ReturnAs("", "assert_xml_tag_value", assert_xml_tag_value(response, params))

\* assert_xml_schema with its default argument, or with TodosAsserts.xsd_path
CallXmlSchema ==
    \/ /\ "base_assertions" \in loaded
       /\ ReturnAs("challenges.xsd", "assert_xml_schema",
                   assert_xml_schema(response, XsdFile("challenges.xsd")))
    \/ /\ "todos_assertions" \in loaded
       /\ ReturnAs("todos.xsd", "assert_xml_schema",
                   assert_xml_schema(response, XsdFile("todos.xsd")))

\* element texts: none, the integers 0..MaxInt, "True", ""
XmlTexts == {<<>>, <<"True">>, <<"">>} \cup {<<ToString(n)>> : n \in 0..MaxInt}

XmlLeaves == {Elem(tag, t, <<>>) : tag \in {"id", "a"}, t \in XmlTexts}
XmlIdLeaves == {Elem("id", t, <<>>) : t \in XmlTexts}

XmlGen1 ==
    {Elem("todo", <<>>, <<x>>) : x \in XmlLeaves}
    \cup {Elem("todo", <<>>, <<x, y>>) : x \in XmlIdLeaves, y \in XmlLeaves}
    \cup {Elem("id", t, <<x>>) : t \in {<<>>, <<"1">>}, x \in XmlIdLeaves}

XmlGen2 == {Elem("todos", <<>>, <<x>>) : x \in XmlGen1}

XmlBodies ==
    {XmlBody(t, FALSE) : t \in XmlLeaves \cup XmlGen1 \cup XmlGen2 \cup {XmlTodo60}}
    \cup {XmlBody(XmlTodos, TRUE), XmlBody(XmlChallenges, TRUE)}
    \cup {BadBody, JsonBody(DocTodos)}

XmlResponses == {Response(200, 1, <<APPLICATION_XML>>, b) : b \in XmlBodies}

TagParams ==
    {<< <<tag, x>> >> : tag \in {"id", "a", "todo"},
                        x \in {JInt(0), JInt(1), JBool(TRUE), JStr(5)}}
    \cup {<< <<"id", JInt(59)>> >>, << <<"a", JInt(1)>>, <<"id", JInt(1)>> >>,
          << <<"todos", JStr(5)>>, <<"title", JStr(1)>> >>}

InitXml ==
    /\ response \in XmlResponses
    /\ checks = NoChecks
    /\ cls = TodosAsserts
    /\ files \in [XsdNames -> {"ok", "unreadable", "missing"}]
    /\ loaded = {}
    /\ environ = <<"t0">>
    /\ dotenv = <<"t0">>
    /\ sent = <<>>
    /\ params \in TagParams
    /\ pc = "idle"
    /\ is_xml = FALSE
    /\ trace = <<>>
    /\ result = Passed(<<>>)

NextXml ==
    \/ LoadBaseAssertions
    \/ LoadTodosAssertions
    \/ LoadChallengesAssertions
    \/ CallXmlTagPresent
    \/ CallXmlTagValue
    \/ CallXmlSchema

SpecXml == InitXml /\ [][NextXml]_vars

(***************************************************************************)
(* Vocabulary of the properties.                                           *)
(***************************************************************************)
\* The occurrences of a key in a document, found without the extractors:
\* the located nodes of the document, level by level from the root (a node
\* is <<path, value>>, path the positions taken from the root), and among
\* them the mappings that hold the key.
Kids(N) ==
    UNION {{<<Append(n[1], i), n[2].items[i][2]>> : i \in DOMAIN n[2].items} : n \in N}

RECURSIVE NodesFrom(_)
NodesFrom(N) == IF N = {} THEN {} ELSE N \cup NodesFrom(Kids(N))

Occurrences(doc, key) ==
    {n \in NodesFrom({<<<<>>, doc>>}) : IsDict(n[2]) /\ HasKey(n[2], key)}

OccValue(n, key) == GetKey(n[2], key)

\* the sequence s holds exactly the values stored under key in doc, each as
\* many times as it is stored
SameMultiset(s, doc, key) ==
    LET occ == Occurrences(doc, key)
    IN  /\ Len(s) = Cardinality(occ)
        /\ \A n \in occ :
              Cardinality({i \in DOMAIN s : s[i] = OccValue(n, key)})
                  = Cardinality({m \in occ : OccValue(m, key) = OccValue(n, key)})

Returned(name) == pc = "returned" /\ trace[1].call = name

JsonResponse == response.body.kind = "json"

ContentTypeIs(value) == response.headers["content-type"] = <<value>>

TraceSteps == {trace[i].step : i \in DOMAIN trace}
TraceCalls == {trace[i].call : i \in DOMAIN trace}

PreSteps == {"status_code", "response_time", "headers_present", "header_values"}
BodySteps == {"content_type", "schema", "key_present", "key_value"}

Rank(step) ==
    CASE step = "status_code" -> 1
      [] step = "response_time" -> 2
      [] step = "headers_present" -> 3
      [] step = "header_values" -> 4
      [] step = "is_success" -> 5
      [] step = "content_type" -> 6
      [] step = "schema" -> 7
      [] step = "key_present" -> 8
      [] step = "key_value" -> 9
      [] OTHER -> 10

\* the step the runner has reached: the statement to run next, or past the
\* last call made once it has returned or raised
Reached == IF pc = "raised" THEN Rank(trace[Len(trace)].step) ELSE Rank(pc)

\* the runner has got past the statement of a step (ran it or skipped it)
Past(step) ==
    IF pc = "raised" THEN Rank(trace[Len(trace)].step) >= Rank(step)
    ELSE Rank(pc) > Rank(step)

\* a check the runner evaluates: its field is set to a value that is not
\* zero and not empty
Configured(step) ==
    CASE step = "status_code" -> checks.status_code # None /\ checks.status_code[1] # 0
      [] step = "response_time" -> checks.response_time # None /\ checks.response_time[1] # 0
      [] step = "headers_present" ->
            checks.headers_present # None /\ checks.headers_present[1] # <<>>
      [] step = "header_values" ->
            checks.header_values # None /\ checks.header_values[1] # <<>>
      [] OTHER -> FALSE

\* C1: comprehensive_checks evaluates the configured checks in the order
\* status code, response time, headers present, header values (a check is
\* evaluated exactly when it is configured and no earlier one failed), the
\* first failure is raised and nothing is evaluated after it; with a failing
\* status code and a failing header the error is the status-code failure and
\* no header check is executed.
C1_FailFastOrder ==
    /\ \A i, j \in DOMAIN trace : i < j => Rank(trace[i].step) < Rank(trace[j].step)
    /\ \A i \in DOMAIN trace :
          trace[i].err # "" =>
              i = Len(trace) /\ pc = "raised" /\ result.err = trace[i].err
    /\ pc = "raised" => trace # <<>> /\ trace[Len(trace)].err # ""
    /\ \A st \in PreSteps :
          /\ Rank(st) < Reached => (st \in TraceSteps <=> Configured(st))
          /\ Rank(st) > Reached => st \notin TraceSteps
    /\ ( /\ pc # "status_code"
         /\ Configured("status_code")
         /\ response.status_code # checks.status_code[1]
         /\ Configured("headers_present")
         /\ \E i \in DOMAIN checks.headers_present[1] :
               ~HeaderIn(response.headers, checks.headers_present[1][i]) )
       => /\ pc = "raised"
          /\ result.err = "StatusMismatch"
          /\ TraceSteps = {"status_code"}

\* C1 witness: status code and header expectation both fail, and the runner
\* has raised
C1_Witness ==
    /\ pc = "raised"
    /\ result.err = "StatusMismatch"
    /\ checks.status_code = <<200>>
    /\ response.status_code = 404
    /\ checks.headers_present = <<<<"Content-Type">>>>
    /\ response.headers["content-type"] = <<>>

\* the request headers of the checks bag declare Accept: application/xml
AcceptsXml ==
    /\ checks.request_headers # None
    /\ \E i \in DOMAIN checks.request_headers[1] :
          checks.request_headers[1][i] = <<"Accept", APPLICATION_XML>>

ExpectedMediaType == IF AcceptsXml THEN APPLICATION_XML ELSE APPLICATION_JSON

\* the response's status is in the 2xx range
Is2xx == response.status_code \in 200..299

JsonCalls == {"assert_json_schema", "assert_body_keys_present", "assert_body_key_values"}
XmlCalls == {"assert_xml_schema", "assert_xml_tag_present", "assert_xml_tag_value"}

\* C2: on a 2xx response every body step (schema validation, key/tag
\* presence, key/tag value) runs only after the content-type assertion for the
\* determined format has passed, whether or not the schema flag is set; a
\* response with a JSON body whose content-type declares XML is never parsed
\* as JSON.
C2_ContentTypeBeforeBody ==
    /\ \A i \in DOMAIN trace :
          trace[i].step \in {"schema", "key_present", "key_value"} =>
              \E j \in 1..(i - 1) : trace[j].step = "content_type" /\ trace[j].err = ""
    /\ (JsonResponse /\ ContentTypeIs(APPLICATION_XML)) => TraceCalls \cap JsonCalls = {}

\* C8: on a response outside 2xx no body step runs (no format is determined,
\* no content-type assertion, no schema validation, no key/tag check),
\* whatever the checks bag holds: once the status, time and header checks
\* have passed the runner returns normally.
C8_NoBodyStepsOutside2xx ==
    ~Is2xx =>
        /\ TraceSteps \subseteq PreSteps
        /\ pc \notin BodySteps
        /\ is_xml = FALSE
        /\ Reached > Rank("is_success") => pc = "done" /\ result.err = ""

\* C8 witness: a 404 with schema, key_present and key_value configured and
\* passing status and header checks has returned normally
C8_Witness ==
    /\ response.status_code = 404
    /\ pc = "done"
    /\ checks.schema = <<TRUE>>
    /\ checks.key_present # None
    /\ checks.key_value # None
    /\ "status_code" \in TraceSteps
    /\ "headers_present" \in TraceSteps
    /\ response.body = BadBody

\* C9: the response is treated as XML exactly when request_headers declares
\* Accept: application/xml and as JSON otherwise, whatever the response's
\* content-type and body are: is_xml, the media type the content-type
\* assertion accepts and the family of primitives called all follow the
\* request headers.
C9_FormatFromRequestHeaders ==
    /\ (pc \in BodySteps \/ TraceSteps \cap BodySteps # {}) => is_xml = AcceptsXml
    /\ \A i \in DOMAIN trace :
          /\ (trace[i].step = "content_type" /\ trace[i].err = "")
                => ContentTypeIs(ExpectedMediaType)
          /\ (trace[i].step = "content_type" /\ trace[i].err # "")
                => ~ContentTypeIs(ExpectedMediaType)
          /\ trace[i].call \in XmlCalls => AcceptsXml
          /\ trace[i].call \in JsonCalls => ~AcceptsXml

\* C9 witness: an XML response (content-type and body) to a request that
\* declared Accept: application/json has been handed to a JSON primitive
C9_Witness ==
    /\ checks.request_headers = << << <<"Accept", APPLICATION_JSON>> >> >>
    /\ ContentTypeIs(APPLICATION_XML)
    /\ response.body.kind = "xml"
    /\ "assert_body_keys_present" \in TraceCalls

\* the class has no descriptor for the format the request headers determine
NoDescriptor == IF AcceptsXml THEN cls.xsd_path = None ELSE cls.schema = None

\* C10: on a 2xx response with the schema flag set and no descriptor
\* registered for the determined format, the runner fails with the
\* schema-not-configured error as soon as the earlier checks and the
\* content-type assertion have passed, and with the content-type mismatch
\* when that assertion fails; the schema-not-configured error is never raised
\* without a passed content-type assertion right before it.
C10_SchemaNotConfigured ==
    /\ \A i \in DOMAIN trace :
          trace[i].err = "SchemaNotConfigured" =>
              /\ i > 1
              /\ trace[i - 1].step = "content_type"
              /\ trace[i - 1].err = ""
              /\ ContentTypeIs(ExpectedMediaType)
              /\ NoDescriptor
    /\ (Is2xx /\ checks.schema = <<TRUE>> /\ NoDescriptor
            /\ Past("schema"))
       => /\ pc = "raised"
          /\ result.err = "SchemaNotConfigured"
          /\ ContentTypeIs(ExpectedMediaType)
    /\ (Is2xx /\ checks.schema = <<TRUE>> /\ NoDescriptor
            /\ Reached = Rank("content_type") /\ pc = "raised")
       => /\ result.err = "HeaderValueMismatch"
          /\ ~ContentTypeIs(ExpectedMediaType)

\* C10 witness: the XML format on a class without an XSD path has ended in
\* the schema-not-configured error
C10_Witness ==
    /\ pc = "raised"
    /\ result.err = "SchemaNotConfigured"
    /\ AcceptsXml
    /\ cls = BaseResponseAsserts
    /\ Is2xx

\* get_all_key_values extracts from the response: a JSON content-type with
\* a JSON body, or an XML content-type with an XML body
ExtractsJson == ContentTypeIs(APPLICATION_JSON) /\ response.body.kind = "json"
ExtractsXml == ContentTypeIs(APPLICATION_XML) /\ response.body.kind = "xml"

\* some occurrence of the key in the body equals the expected value
AnyEquals(key, expected) ==
    \E n \in Occurrences(response.body.doc, key) : PyEq(OccValue(n, key), expected)

\* every occurrence of the key in the body equals the expected value
AllEqual(key, expected) ==
    \A n \in Occurrences(response.body.doc, key) : PyEq(OccValue(n, key), expected)

InfoKeys == {result.info[i].key : i \in DOMAIN result.info}

\* C3: assert_body_key_values passes if and only if every expected key has
\* an occurrence in the JSON body equal to its expected value; otherwise it
\* raises, and the failure lists exactly the keys without such an occurrence,
\* each with the values found for it (none for a key that does not occur).
C3_BodyKeyValuesAny ==
    (Returned("assert_body_key_values") /\ JsonResponse) =>
        LET failing == {i \in DOMAIN params : ~AnyEquals(params[i][1], params[i][2])}
        IN  /\ result.err = "" <=> failing = {}
            /\ result.err # "" =>
                  /\ result.err = "BodyKeyValueMismatch"
                  /\ InfoKeys = {params[i][1] : i \in failing}
                  /\ Len(result.info) = Cardinality(failing)
                  /\ \A j \in DOMAIN result.info :
                        SameMultiset(result.info[j].found, response.body.doc,
                                     result.info[j].key)

\* C3 witness: the challenges body with the single id 59 against {id: 60}
\* has failed listing the found values [59]
C3_Witness ==
    /\ Returned("assert_body_key_values")
    /\ response.body = JsonBody(DocChallenges)
    /\ params = << <<"id", JInt(60)>> >>
    /\ result.err = "BodyKeyValueMismatch"
    /\ result.info = <<Detail("id", <<JInt(59)>>, <<>>)>>

\* the values the verifier compares for the i-th field, in extraction order
Extracted(i) ==
    IF ExtractsJson THEN _find_values_recursively(response.body.doc, params[i][1])
    ELSE <<>>

\* C4: on a response the verifier extracts from, check_query_filter passes
\* if and only if every field has no occurrence in the body or only
\* occurrences equal to its expected value; otherwise it raises for the first
\* failing field, naming the first of its occurrences (in extraction order)
\* that differs.
C4_QueryFilterEvery ==
    /\ (Returned("check_query_filter") /\ ExtractsJson) =>
          LET failing == {i \in DOMAIN params : ~AllEqual(params[i][1], params[i][2])}
              first == CHOOSE i \in failing : \A j \in failing : i <= j
              Differs(x) == ~PyEq(x, params[first][2])
          IN  /\ result.err = "" <=> failing = {}
              /\ result.err # "" =>
                    /\ result.err = "FilterViolation"
                    /\ result.info =
                          <<Detail(params[first][1],
                                   <<Head(SelectSeq(Extracted(first), Differs))>>, <<>>)>>
    /\ (Returned("check_query_filter") /\ ExtractsXml) =>
          LET texts(i) == MapSeq(findall(response.body.tree, params[i][1]), TextOf)
              failing == {i \in DOMAIN params :
                             \E k \in DOMAIN texts(i) : ~PyEqText(texts(i)[k], params[i][2])}
              first == CHOOSE i \in failing : \A j \in failing : i <= j
              Differs(x) == ~PyEqText(x, params[first][2])
          IN  /\ result.err = "" <=> failing = {}
              /\ result.err # "" =>
                    /\ result.err = "FilterViolation"
                    /\ result.info =
                          <<Detail(params[first][1], <<>>,
                                   <<Head(SelectSeq(texts(first), Differs))>>)>>

\* C4 witness: the todos with doneStatus true and false under the filter
\* {doneStatus: true} have raised because of the second record
C4_Witness ==
    /\ Returned("check_query_filter")
    /\ response.body = JsonBody(DocTodos)
    /\ ContentTypeIs(APPLICATION_JSON)
    /\ params = << <<"doneStatus", JBool(TRUE)>> >>
    /\ result.err = "FilterViolation"
    /\ result.info = <<Detail("doneStatus", <<JBool(FALSE)>>, <<>>)>>

\* C5: for a JSON response, a key with at least one occurrence and a value:
\* whenever check_query_filter passes, assert_body_key_values passes too;
\* the converse fails on the occurrences [5, 5, 7] with the value 5, where
\* assert_body_key_values passes and check_query_filter raises.
C5_AnyEveryAsymmetry ==
    /\ ( /\ Returned("check_query_filter")
         /\ ExtractsJson
         /\ Len(params) = 1
         /\ Occurrences(response.body.doc, params[1][1]) # {}
         /\ result.err = "" )
       => assert_body_key_values(response, params).err = ""
    /\ ( /\ Returned("assert_body_key_values")
         /\ Len(params) = 1
         /\ JsonResponse
         /\ result.err # ""
         /\ Occurrences(response.body.doc, params[1][1]) # {} )
       => (ExtractsJson => check_query_filter(response, params).err # "")
    /\ (response.body = JsonBody(Doc557) /\ params = << <<"id", JInt(5)>> >>) =>
          /\ Returned("assert_body_key_values") => result.err = ""
          /\ (Returned("check_query_filter") /\ ExtractsJson)
                => result.err = "FilterViolation"

\* C5 witness: on the occurrences [5, 5, 7] the filter {id: 5} has raised
\* because of the 7
C5_Witness ==
    /\ Returned("check_query_filter")
    /\ response.body = JsonBody(Doc557)
    /\ ContentTypeIs(APPLICATION_JSON)
    /\ params = << <<"id", JInt(5)>> >>
    /\ result.err = "FilterViolation"
    /\ result.info = <<Detail("id", <<JInt(7)>>, <<>>)>>
    /\ assert_body_key_values(response, params).err = ""

\* C6: assert_body_keys_present passes if and only if every named key occurs
\* at least once anywhere in the JSON body, at any depth; on failure it
\* reports exactly the keys that occur nowhere.
C6_KeysPresentAnyDepth ==
    (Returned("assert_body_keys_present") /\ JsonResponse) =>
        LET missing == {i \in DOMAIN params :
                           Occurrences(response.body.doc, params[i][1]) = {}}
        IN  /\ result.err = "" <=> missing = {}
            /\ result.err # "" =>
                  /\ result.err = "BodyKeyMissing"
                  /\ InfoKeys = {params[i][1] : i \in missing}

\* C7: for a document with N occurrences of a key at any depths (a key
\* whose value is a mapping holding the key included), both recursive
\* extractors return exactly N values, the values stored under the key as a
\* multiset, and return normally; with N = 0 they return the empty sequence.
C7_ExtractorComplete ==
    /\ Returned("find_key_values") =>
          /\ result.err = ""
          /\ Len(result.info) = Len(params)
          /\ \A i \in DOMAIN params :
                /\ result.info[i].key = params[i][1]
                /\ SameMultiset(result.info[i].found, response.body.doc, params[i][1])
    /\ (Returned("get_all_key_values") /\ ExtractsJson) =>
          /\ result.err = ""
          /\ Len(result.info) = Len(params)
          /\ \A i \in DOMAIN params :
                /\ result.info[i].key = params[i][1]
                /\ SameMultiset(result.info[i].found, response.body.doc, params[i][1])

\* C7 witness: the key "id" whose value is a mapping holding "id": two
\* occurrences, two values returned
C7_Witness ==
    /\ Returned("find_key_values")
    /\ response.body = JsonBody(DocNested)
    /\ params = << <<"id", JInt(5)>> >>
    /\ result.info = <<Detail("id", <<Rec(<< <<"id", JInt(5)>> >>), JInt(5)>>, <<>>)>>
    /\ Cardinality(Occurrences(DocNested, "id")) = 2

\* every check before the body steps that was called has passed
PreStepsPassed ==
    \A i \in DOMAIN trace : trace[i].step \in PreSteps => trace[i].err = ""

\* the /challenges response of test_02_get_challenges in the format the
\* request asked for: conforming body, matching content-type, the challenges
\* key/tag and a record with id 59
ChallengesResponse ==
    /\ response.status_code = 200
    /\ \/ /\ ~AcceptsXml
          /\ response.body = JsonBody(DocChallenges)
          /\ ContentTypeIs(APPLICATION_JSON)
       \/ /\ AcceptsXml
          /\ response.body = XmlBody(XmlChallenges, TRUE)
          /\ ContentTypeIs(APPLICATION_XML)

\* C11: the challenges family has a JSON descriptor and an XSD path
\* registered, so that comprehensive_checks with schema=True on a class derived
\* from ChallengesAsserts does not raise on a conforming /challenges response
\* with the matching content-type, in the JSON and in the XML variant.
C11_ChallengesRunnerPasses ==
    ( /\ cls = ChallengesAsserts
      /\ ChallengesResponse
      /\ checks.schema = <<TRUE>>
      /\ PreStepsPassed )
    => pc # "raised"

\* C12: every failure is preceded, within the call that raises it, by at
\* least one attachment to the report sink (a non-JSON body given to
\* assert_body_keys_present or assert_json_schema and the
\* schema-not-configured error included).
C12_AttachBeforeRaise ==
    \A i \in DOMAIN trace : trace[i].err # "" => trace[i].att # <<>>

\* the call made directly on the response, in SpecXml
Called(name) == pc = "returned" /\ trace[1].call = name

XmlResponse == response.body.kind = "xml"

\* C13: a missing XSD file is reported only when an XML schema validation is
\* executed: loading the assertion modules, which reads the XSD paths into a
\* class attribute and a default argument, never raises, whatever files exist.
C13_MissingXsdAtValidationOnly ==
    /\ pc = "raised" => trace[1].step # "import"
    /\ result.err = "FileNotFoundError" => Called("assert_xml_schema")

\* C14: assert_xml_schema tells its three failure causes apart: a body that
\* is not well-formed XML gives body-not-parsable, an XSD file that cannot be
\* opened gives XSD-resource-missing, a tree that violates the XSD gives
\* schema-validation error; the second is never the error of the third.
C14_XmlSchemaThreeCauses ==
    Called("assert_xml_schema") =>
        /\ ~XmlResponse => result.err = "BodyNotParsable"
        /\ (XmlResponse /\ files[trace[1].step] # "ok") =>
              result.err \notin {"", "BodyNotParsable", "SchemaValidationError"}
        /\ (XmlResponse /\ files[trace[1].step] = "ok" /\ ~response.body.xsd_ok) =>
              result.err = "SchemaValidationError"
        /\ (XmlResponse /\ files[trace[1].step] = "ok" /\ response.body.xsd_ok) =>
              result.err = ""

\* The elements of a tree, found without findall: the located elements
\* (<<path, element>>), level by level below the root.
XmlKids(N) ==
    UNION {{<<Append(n[1], i), n[2].children[i]>> : i \in DOMAIN n[2].children} : n \in N}

RECURSIVE XmlNodesFrom(_)
XmlNodesFrom(N) == IF N = {} THEN {} ELSE N \cup XmlNodesFrom(XmlKids(N))

\* the descendants of the root that carry the tag
Descendants(root, tag) == {n \in XmlNodesFrom(XmlKids({<<<<>>, root>>})) : n[2].tag = tag}

\* the text content of an element, the empty string when it has none
TextContent(n) == IF n[2].text = <<>> THEN "" ELSE n[2].text[1]

\* C17: assert_xml_tag_present (base class) passes if and only if every
\* named tag is the tag of the root or of at least one descendant at any
\* depth; its failure reports every missing tag.
C17_TagPresentRootOrDescendant ==
    (Called("assert_xml_tag_present") /\ XmlResponse) =>
        LET root == response.body.tree
            missing == {i \in DOMAIN params :
                           root.tag # params[i][1] /\ Descendants(root, params[i][1]) = {}}
        IN  /\ result.err = "" <=> missing = {}
            /\ result.err # "" =>
                  /\ result.err = "TagMissing"
                  /\ InfoKeys = {params[i][1] : i \in missing}
                  /\ Len(result.info) = Cardinality(missing)

\* C17 witness: the single-record document <todo><id>60</id></todo>, whose
\* root is the tag asked for, has passed
C17_Witness ==
    /\ Called("assert_xml_tag_present")
    /\ response.body.tree = XmlTodo60
    /\ params[1][1] = "todo"
    /\ Descendants(XmlTodo60, "todo") = {}
    /\ result.err = ""

\* C18: assert_xml_tag_value passes if and only if every named tag has at
\* least one occurrence below the root whose text content (the empty string
\* for an element without text) equals the string form of the expected value;
\* its failure lists exactly the tags without such an occurrence, those that
\* do not occur included.
C18_TagValueAny ==
    (Called("assert_xml_tag_value") /\ XmlResponse) =>
        LET root == response.body.tree
            failing == {i \in DOMAIN params :
                           ~\E n \in Descendants(root, params[i][1]) :
                                TextContent(n) = PyStr(params[i][2])}
        IN  /\ result.err = "" <=> failing = {}
            /\ result.err # "" =>
                  /\ result.err = "TagValueMismatch"
                  /\ InfoKeys = {params[i][1] : i \in failing}
                  /\ Len(result.info) = Cardinality(failing)
                  /\ \A j \in DOMAIN result.info :
                        Len(result.info[j].texts) =
                            Cardinality(Descendants(root, result.info[j].key))

\* C18 witness: two occurrences of id, the texts "0" and "1", against the
\* expected value 1 have passed
C18_Witness ==
    /\ Called("assert_xml_tag_value")
    /\ response.body.tree =
          Elem("todo", <<>>, <<Elem("id", <<"0">>, <<>>), Elem("id", <<"1">>, <<>>)>>)
    /\ params = << <<"id", JInt(1)>> >>
    /\ result.err = ""

\* C19: on a body that is not well-formed XML the tag-presence and the
\* tag-value check fail with body-not-parsable, never with tag-missing or
\* tag-value-mismatch, and report no tag: nothing is looked up.
C19_MalformedXmlNotParsable ==
    ( /\ Called("assert_xml_tag_present") \/ Called("assert_xml_tag_value")
      /\ ~XmlResponse )
    => /\ result.err = "BodyNotParsable"
       /\ result.info = <<>>

\* C19 witness: the tag-presence check on the unclosed <todos><todo> has
\* raised body-not-parsable
C19_Witness ==
    /\ Called("assert_xml_tag_present")
    /\ response.body = BadBody
    /\ params[1][1] = "todo"
    /\ result.err = "BodyNotParsable"
    /\ result.att = <<"Invalid XML">>

\* the call of assert_json_schema (either class) with the descriptor
CalledJsonSchema(schema) ==
    /\ pc = "returned"
    /\ trace[1].call \in {"assert_json_schema", "ChallengesAsserts.assert_json_schema"}
    /\ trace[1].step = schema.name

\* C15: assert_json_schema has three outcomes: pass, body-not-parsable for
\* a text that is not JSON, schema-validation error for JSON that does not fit
\* the descriptor; every JSON body, a top-level array, string, number or null
\* included, ends in pass or schema-validation error.
C15_JsonSchemaThreeOutcomes ==
    \A schema \in {TodosSchema, ChallengesSchema} :
        CalledJsonSchema(schema) =>
            /\ result.err \in {"", "BodyNotParsable", "SchemaValidationError"}
            /\ result.err = "BodyNotParsable" <=> ~JsonResponse

\* The descriptor as the specification states it: the JSON type each record
\* field declares, and the fields a record must hold.
DeclaredTypes(schema) ==
    IF schema.collection = "todos"
      THEN [id |-> {"int"}, title |-> {"str"}, description |-> {"str", "null"},
            doneStatus |-> {"bool"}]
      ELSE [id |-> {"int"}, name |-> {"str"}, description |-> {"str", "null"},
            status |-> {"bool"}]

RequiredNames(schema) == DOMAIN DeclaredTypes(schema) \ {"description"}

\* the record holds the required fields, no undeclared field, and every field
\* a value of its declared JSON type
Satisfies(rec, schema) ==
    /\ IsDict(rec)
    /\ \A n \in RequiredNames(schema) : HasKey(rec, n)
    /\ \A i \in DOMAIN rec.items :
          /\ rec.items[i][1] \in DOMAIN DeclaredTypes(schema)
          /\ rec.items[i][2].t \in DeclaredTypes(schema)[rec.items[i][1]]

\* the body is {collection: [records]} with every record satisfying the
\* descriptor
BodySatisfies(body, schema) ==
    /\ IsDict(body)
    /\ HasKey(body, schema.collection)
    /\ IsList(GetKey(body, schema.collection))
    /\ \A i \in DOMAIN GetKey(body, schema.collection).items :
          Satisfies(GetKey(body, schema.collection).items[i][2], schema)

\* the body is a conforming one-record body with a single change (a required
\* field removed, an unknown field added, a field given another value) that
\* makes the record stop satisfying the descriptor
SingleMutation(body, schema) ==
    /\ body \in ChangedBodies
    /\ HasKey(body, schema.collection)
    /\ ~BodySatisfies(body, schema)

\* C16: validation against the todos/challenges descriptors accepts every
\* body that satisfies the descriptor, and rejects with a schema-validation
\* error a conforming body changed by removing a required record field, adding
\* an unknown record field, or giving a record field a value of another type.
C16_SchemaAcceptsAndRejects ==
    \A schema \in {TodosSchema, ChallengesSchema} :
        (CalledJsonSchema(schema) /\ JsonResponse) =>
            /\ BodySatisfies(response.body.doc, schema) => result.err = ""
            /\ SingleMutation(response.body.doc, schema) =>
                  result.err = "SchemaValidationError"

\* C20: check_query_filter returns normally only if the body was parsed as
\* JSON or as XML and every extracted occurrence of every field equals the
\* expected value; a response whose content-type is missing or is neither
\* application/json nor application/xml does not pass.
C20_FilterPassesOnlyIfParsed ==
    (Returned("check_query_filter") /\ result.err = "") =>
        /\ ExtractsJson \/ ExtractsXml
        /\ ExtractsJson => \A i \in DOMAIN params : AllEqual(params[i][1], params[i][2])

\* the field of a step is present in the checks bag (not None)
Present(step) ==
    CASE step = "status_code" -> checks.status_code # None
      [] step = "response_time" -> checks.response_time # None
      [] step = "headers_present" -> checks.headers_present # None
      [] step = "header_values" -> checks.header_values # None
      [] OTHER -> FALSE

\* C21: every step of comprehensive_checks runs whenever its field is
\* present in the checks bag, whatever its value: a ceiling of 0 still runs the
\* response-time check (and fails a slower response), a status_code of 0 still
\* runs the status-code check.
C21_PresentFieldsRun ==
    /\ \A st \in PreSteps :
          (Rank(st) < Reached /\ Present(st)) => st \in TraceSteps
    /\ ( /\ checks.response_time = <<0>>
         /\ response.elapsed > 0
         /\ Past("response_time")
         /\ \A i \in DOMAIN trace : trace[i].step # "status_code" \/ trace[i].err = "" )
       => pc = "raised" /\ result.err = "TimeExceeded"

\* the request headers of the checks bag declare Accept: application/xml,
\* the name in any letter case
AcceptsXmlAnyCase ==
    /\ checks.request_headers # None
    /\ \E i \in DOMAIN checks.request_headers[1] :
          /\ Lower(checks.request_headers[1][i][1]) = "accept"
          /\ checks.request_headers[1][i][2] = APPLICATION_XML

\* C22: header names are compared case-insensitively everywhere: the
\* format comprehensive_checks handles the response in does not depend on the
\* letter case of the Accept entry of request_headers, as the header checks do
\* not depend on the case of the expected names.
C22_HeaderNamesCaseInsensitive ==
    /\ (pc \in BodySteps \/ TraceSteps \cap BodySteps # {}) => is_xml = AcceptsXmlAnyCase
    /\ \A i \in DOMAIN trace :
          /\ trace[i].call \in XmlCalls => AcceptsXmlAnyCase
          /\ trace[i].call \in JsonCalls => ~AcceptsXmlAnyCase
          /\ trace[i].step = "headers_present" =>
                (trace[i].err = "" <=> response.headers["content-type"] # <<>>)

\* the body checks the runner evaluates on a 2xx response
BodyConfigured(step) ==
    CASE step = "schema" -> checks.schema = <<TRUE>>
      [] step = "key_present" -> checks.key_present # None /\ checks.key_present[1] # <<>>
      [] step = "key_value" -> checks.key_value # None /\ checks.key_value[1] # <<>>
      [] OTHER -> FALSE

\* C23: in the body phase on a 2xx response the steps run in the order
\* schema validation, key/tag presence, key/tag value, each only if
\* configured, and the first failure aborts the rest: with the schema flag set
\* and schema validation and key presence both bound to fail the schema
\* failure is raised, and nothing is evaluated after a key/tag presence
\* failure.
C23_BodyPhaseOrder ==
    /\ \A i, j \in DOMAIN trace :
          (i < j /\ trace[i].step \in BodySteps /\ trace[j].step \in BodySteps)
              => Rank(trace[i].step) < Rank(trace[j].step)
    /\ \A i \in DOMAIN trace :
          trace[i].step \in {"schema", "key_present", "key_value"} =>
              /\ BodyConfigured(trace[i].step)
              /\ Is2xx
              /\ \A j \in 1..(i - 1) : trace[j].err = ""
    /\ \A st \in {"schema", "key_present", "key_value"} :
          (Past(st) /\ pc = "done" /\ Is2xx /\ BodyConfigured(st)) => st \in TraceSteps
    /\ \A i \in DOMAIN trace :
          (trace[i].step = "key_present" /\ trace[i].err # "") =>
              i = Len(trace) /\ pc = "raised" /\ "key_value" \notin TraceSteps
    /\ ( /\ cls = TodosAsserts
         /\ ~AcceptsXml
         /\ response.body = JsonBody(DocChallenges)
         /\ "schema" \in TraceSteps )
       => /\ pc = "raised"
          /\ result.err = "SchemaValidationError"
          /\ "key_present" \notin TraceSteps

\* C23 witness: the schema flag set, a body that fails the todos descriptor
\* and lacks the key asked for: the schema failure has been raised
C23_Witness ==
    /\ cls = TodosAsserts
    /\ response.body = JsonBody(DocChallenges)
    /\ checks.schema = <<TRUE>>
    /\ checks.key_present = <<<<"todos">>>>
    /\ checks.key_value # None
    /\ pc = "raised"
    /\ result.err = "SchemaValidationError"
    /\ assert_body_keys_present(response, <<"todos">>).err # ""

\* C28: the XML key_present step of the runner passes or fails alike
\* whichever assertion class runs it: on a well-formed XML body
\* ChallengesAsserts passes the step exactly when the base class's
\* assert_xml_tag_present passes for the same list of tags.
C28_XmlKeyPresentSameForAllClasses ==
    \A i \in DOMAIN trace :
        ( /\ trace[i].step = "key_present"
          /\ trace[i].call = "assert_xml_tag_present"
          /\ XmlResponse )
        => (trace[i].err = "" <=>
                \A k \in DOMAIN checks.key_present[1] :
                    \/ response.body.tree.tag = checks.key_present[1][k]
                    \/ Descendants(response.body.tree, checks.key_present[1][k]) # {})

\* p comes before q in document order: a mapping before what it holds,
\* earlier members before later ones
RECURSIVE PathBefore(_, _)
PathBefore(p, q) ==
    IF p = <<>> THEN q # <<>>
    ELSE IF q = <<>> THEN FALSE
    ELSE IF Head(p) # Head(q) THEN Head(p) < Head(q)
    ELSE PathBefore(Tail(p), Tail(q))

\* s lists the values stored under key in doc, one per occurrence, in
\* document order
InDocumentOrder(s, doc, key) ==
    LET occ == Occurrences(doc, key)
    IN  /\ Len(s) = Cardinality(occ)
        /\ \A n \in occ :
              s[Cardinality({m \in occ : PathBefore(m[1], n[1])}) + 1] = OccValue(n, key)

\* C25: the three recursive searches, find_key_values,
\* _find_values_recursively and extract_ids (for the key "id"), return the
\* same values in the same order for every JSON document and key: the values
\* of the occurrences in document order.
C25_SearchesAgree ==
    /\ Returned("find_key_values") =>
          \A i \in DOMAIN params :
              InDocumentOrder(result.info[i].found, response.body.doc, params[i][1])
    /\ (Returned("get_all_key_values") /\ ExtractsJson) =>
          \A i \in DOMAIN params :
              InDocumentOrder(result.info[i].found, response.body.doc, params[i][1])
    /\ (Returned("get_available_ids") /\ ExtractsJson) =>
          /\ result.err = ""
          /\ InDocumentOrder(result.info[1].found, response.body.doc, "id")

\* C25 witness: on the "id" whose value is a mapping holding "id"
\* get_available_ids has returned the outer value, then the inner one
C25_Witness ==
    /\ Returned("get_available_ids")
    /\ ContentTypeIs(APPLICATION_JSON)
    /\ response.body = JsonBody(DocNested)
    /\ result.info = <<Detail("id", <<Rec(<< <<"id", JInt(5)>> >>), JInt(5)>>, <<>>)>>

\* C27: on an XML response the query-filter verifier and the tag-value
\* check compare an occurrence with the expected value alike: for a tag with
\* one occurrence and an expected string, integer or boolean,
\* check_query_filter passes exactly when assert_xml_tag_value passes.
C27_XmlEqualityAgrees ==
    ( /\ Returned("check_query_filter")
      /\ ExtractsXml
      /\ Len(params) = 1
      /\ Cardinality(Descendants(response.body.tree, params[1][1])) = 1 )
    => (result.err = "" <=> assert_xml_tag_value(response, params).err = "")

\* get_all_key_values has handled the response as JSON: it searched the
\* parsed JSON body or failed to parse the text as JSON
TreatedAsJson ==
    /\ Returned("get_all_key_values")
    /\ \/ result.err = "" /\ JsonResponse /\ result.att = <<>>
       \/ result.err # "" /\ result.att = <<"Invalid JSON Response">>

\* C29: a response that get_all_key_values handles as JSON passes the
\* runner's content-type assertion for JSON, so that a content-type with a
\* parameter (application/json; charset=utf-8) is taken or refused by both.
C29_ContentTypeClassifiersAgree ==
    TreatedAsJson =>
        assert_header_values(response, << <<"content-type", APPLICATION_JSON>> >>).err = ""

\* C26: tag presence and tag value agree on what an occurrence is: when
\* assert_xml_tag_present([T]) passes on a well-formed XML body,
\* assert_xml_tag_value({T: v}) does not fail with "tag not found" and
\* get_all_key_values returns a non-empty list for T, also when T is the root
\* element.
C26_PresenceAndValueAgree ==
    ( /\ Called("assert_xml_tag_present")
      /\ XmlResponse
      /\ Len(params) = 1
      /\ result.err = "" )
    => /\ LET tv == assert_xml_tag_value(response, params)
          IN  tv.err # "" => tv.info[1].texts # <<>>
       /\ get_all_key_values(response, params).info[1].texts # <<>>

(***************************************************************************)
(* The HTTP clients and the stored token.                                  *)
(*                                                                         *)
(* environ is os.environ's API_X_CHALLENGER and dotenv the entry of the    *)
(* same name in the .env file: <<>> when unset, <<value>> otherwise.  sent *)
(* records, in order, every request the clients have made in the run.      *)
(* One httpx.Client is shared by ChallengesClient and TodosClient.         *)
(***************************************************************************)

\* the longest run of requests explored
MaxRequests == 3

\* "key in d" for a plain dict
DictHas(d, key) == \E i \in DOMAIN d : d[i][1] = key

\* d[key] = value
DictSet(d, key, value) ==
    IF DictHas(d, key)
      THEN [i \in DOMAIN d |-> IF d[i][1] = key THEN <<key, value>> ELSE d[i]]
      ELSE Append(d, <<key, value>>)

\* del d[key]
DictDel(d, key) == SelectSeq(d, LAMBDA kv : kv[1] # key)

\* d.update(e)
RECURSIVE DictUpdate(_, _)
DictUpdate(d, e) ==
    IF e = <<>> THEN d
    ELSE DictUpdate(DictSet(d, e[1][1], e[1][2]), Tail(e))

\* {k.lower(): v for k, v in d.items()}
LowerKeys(d) ==
    DictUpdate(<<>>, [i \in DOMAIN d |-> <<Lower(d[i][1]), d[i][2]>>])

\* the default headers of httpx.Client(base_url=..., timeout=...)
ClientHeaders == << <<"accept", "*/*">>, <<"user-agent", "python-httpx">> >>

\* os.environ.get("API_X_CHALLENGER", "")
environ_get(env) == IF env = <<>> THEN "" ELSE env[1]

\* a request that takes its token from the client's default headers only
BaseClient_request_client_default(client_headers, env, headers) ==
    LET request_headers == LowerKeys(client_headers)
    IN  IF headers # None
          THEN DictUpdate(request_headers, LowerKeys(headers[1]))
          ELSE request_headers

\* BaseClient._request: the headers passed to self.client.request
BaseClient_request(client_headers, env, headers) ==
    LET current_x_challenger == environ_get(env)
        client_lower == LowerKeys(client_headers)
        request_headers ==
            IF current_x_challenger # ""
              THEN DictSet(client_lower, "x-challenger", current_x_challenger)
              ELSE IF DictHas(client_lower, "x-challenger")
                     THEN DictDel(client_lower, "x-challenger")
                     ELSE client_lower
    IN  IF headers # None
          THEN DictUpdate(request_headers, LowerKeys(headers[1]))
          ELSE request_headers

\* BaseClient.get
get(client_headers, env, headers) ==
    BaseClient_request(client_headers, env, headers)

\* BaseClient.post without data: headers = headers or {}
post(client_headers, env, headers) ==
    BaseClient_request(client_headers, env,
        IF headers = None \/ headers[1] = <<>> THEN << <<>> >> ELSE headers)

\* load_dotenv(env_file): sets the variable only when it is not set yet
load_dotenv(env, dot) == IF env = <<>> THEN dot ELSE env

\* the outcome of generate_new_challenger: the request it sent, the stored
\* token afterwards, whether it raised, what it attached
Outcome(request, env, dot, raised, attached) ==
    [request |-> request, environ |-> env, dotenv |-> dot,
     raised |-> raised, attached |-> attached]

\* a generate_new_challenger that stores whatever token any response carries
generate_new_challenger_any_status(client_headers, env, dot, reply, save_ok) ==
    LET request == post(client_headers, env, << << <<"X-CHALLENGER", "">> >> >>)
        token == HeaderGet(reply.headers, "X-CHALLENGER")
    IN  IF reply.error THEN Outcome(request, env, dot, TRUE, <<>>)
        ELSE IF token # <<>> /\ token[1] # ""
          THEN IF save_ok
                 THEN Outcome(request, token, token, FALSE, <<>>)
                 ELSE Outcome(request, load_dotenv(env, dot), dot, TRUE, <<>>)
          ELSE Outcome(request, env, dot, FALSE, <<"Header is missing">>)

\* ChallengesClient.generate_new_challenger.  reply is what the server
\* answered (error: the request itself failed); save_ok is FALSE when
\* set_key raises.
generate_new_challenger(client_headers, env, dot, reply, save_ok) ==
    LET request == post(client_headers, env, << << <<"X-CHALLENGER", "">> >> >>)
        token == HeaderGet(reply.headers, "X-CHALLENGER")
    IN  IF reply.error THEN Outcome(request, env, dot, TRUE, <<>>)
        ELSE IF reply.status_code = 201
          THEN IF token # <<>> /\ token[1] # ""
                 THEN IF save_ok
                        THEN Outcome(request, token, token, FALSE, <<>>)
                        ELSE Outcome(request, load_dotenv(env, dot), dot, TRUE, <<>>)
                 ELSE Outcome(request, env, dot, FALSE, <<"Header is missing">>)
          ELSE Outcome(request, env, dot, FALSE, <<"Failed to get token">>)

\* what the server can answer to POST /challenger
Reply(error, status_code, token) ==
    [error |-> error, status_code |-> status_code,
     headers |-> [n \in {"x-challenger"} |-> token]]

TokenReplies ==
    {Reply(TRUE, 0, <<>>)}
    \cup {Reply(FALSE, s, t) : s \in {200, 201},
                               t \in {<<>>, <<"">>, <<"t1">>, <<"t2">>}}

\* the answer to a GET: the server names a token of its own in the response
GetReply == Reply(FALSE, 200, <<"t2">>)

\* the headers a caller passes to a GET
CallerHeaders ==
    {None,
     << << <<"X-Challenger", "test_token">> >> >>,
     << << <<"Accept", "application/xml">> >> >>}

\* one line of the record of requests
Sent(op, by, headers, request, reply, after, raised, attached) ==
    [op |-> op, by |-> by, headers |-> headers, request |-> request,
     reply |-> reply,
     before |-> [environ |-> environ, dotenv |-> dotenv],
     after |-> after, raised |-> raised, attached |-> attached]

ClientFrame ==
    UNCHANGED <<response, checks, cls, params, pc, is_xml, trace, result,
                files, loaded>>

GenerateNewChallenger ==
    /\ Len(sent) < MaxRequests
    /\ \E reply \in TokenReplies, save_ok \in BOOLEAN :
         LET out == generate_new_challenger(ClientHeaders, environ, dotenv,
                                            reply, save_ok)
         IN  /\ environ' = out.environ
             /\ dotenv' = out.dotenv
             /\ sent' = Append(sent,
                   Sent("generate_new_challenger", "ChallengesClient",
                        << << <<"X-CHALLENGER", "">> >> >>,
                        out.request, reply,
                        [environ |-> out.environ, dotenv |-> out.dotenv],
                        out.raised, out.attached))
    /\ ClientFrame

\* a GET through one of the clients
Get(op, by) ==
    /\ Len(sent) < MaxRequests
    /\ \E headers \in CallerHeaders :
         sent' = Append(sent,
             Sent(op, by, headers, get(ClientHeaders, environ, headers),
                  GetReply, [environ |-> environ, dotenv |-> dotenv],
                  FALSE, <<>>))
    /\ UNCHANGED <<environ, dotenv>>
    /\ ClientFrame

\* ChallengesClient.get_challenges_api
GetChallengesApi == Get("get_challenges_api", "ChallengesClient")

\* TodosClient.get_all_todos
GetAllTodos == Get("get_all_todos", "TodosClient")

InitClient ==
    /\ response = Response(200, 1, <<APPLICATION_XML>>, XmlTodos)
    /\ checks = NoChecks
    /\ cls = TodosAsserts
    /\ files = AllOk
    /\ loaded = Modules
    /\ params = <<>>
    /\ pc = "idle"
    /\ is_xml = FALSE
    /\ trace = <<>>
    /\ result = Passed(<<>>)
    /\ environ \in {<<>>, <<"t0">>}
    /\ dotenv \in {<<>>, <<"t0">>}
    /\ environ # <<>> \/ dotenv # <<>>
    /\ sent = <<>>

NextClient ==
    \/ GenerateNewChallenger
    \/ GetChallengesApi
    \/ GetAllTodos

SpecClient == InitClient /\ [][NextClient]_vars

(***************************************************************************)
(* The stored token and the requests that carry it                         *)
(***************************************************************************)

\* the value of a header on the wire, <<>> when the request has none
WireHeader(e, name) == DictGet(e.request, name)

\* the caller passed a header of this name, in any case
CallerPassed(e, name) ==
    /\ e.headers # None
    /\ \E i \in DOMAIN e.headers[1] : Lower(e.headers[1][i][1]) = name

\* the request was a generate_new_challenger
IsGenerate(e) == e.op = "generate_new_challenger"

\* the token named by the response, <<>> when it names none
ReplyToken(e) ==
    IF e.reply.error THEN <<>> ELSE e.reply.headers["x-challenger"]

\* generate_new_challenger obtained a token and stored it
Stored(e) ==
    /\ IsGenerate(e)
    /\ ~e.reply.error
    /\ e.reply.status_code = 201
    /\ ReplyToken(e) # <<>>
    /\ ~e.raised
    /\ e.after.environ = ReplyToken(e)

\* no token was stored by the requests strictly between i and j
NoneStoredBetween(i, j) ==
    \A k \in DOMAIN sent : (i < k /\ k < j) => ~Stored(sent[k])

\* C24: once generate_new_challenger has stored a token, every later request
\* of either client finds that token in use and carries it in x-challenger
\* unless its caller passed an x-challenger header, until a later
\* generate_new_challenger stores another; when none does, it is the token
\* still in use.
C24_StoredTokenIsReused ==
    \A i \in DOMAIN sent :
        Stored(sent[i]) =>
            /\ \A j \in DOMAIN sent :
                   (i < j /\ NoneStoredBetween(i, j)) =>
                       /\ sent[j].before.environ = ReplyToken(sent[i])
                       /\ ~CallerPassed(sent[j], "x-challenger")
                            => WireHeader(sent[j], "x-challenger") = ReplyToken(sent[i])
                       /\ (sent[j].after # sent[j].before) => IsGenerate(sent[j])
            /\ NoneStoredBetween(i, Len(sent) + 1) => environ = ReplyToken(sent[i])

\* a token t1 replaced t0, the other client's next request carried t1
\* although the server named t2 in between, and a caller's own header won
C24_Witness ==
    /\ Len(sent) = 3
    /\ sent[1].before.environ = <<"t0">>
    /\ Stored(sent[1]) /\ ReplyToken(sent[1]) = <<"t1">>
    /\ sent[2].by = "TodosClient" /\ sent[2].headers = None
    /\ WireHeader(sent[2], "x-challenger") = <<"t1">>
    /\ sent[3].by = "ChallengesClient" /\ CallerPassed(sent[3], "x-challenger")
    /\ WireHeader(sent[3], "x-challenger") = <<"test_token">>

\* C30: generate_new_challenger always sends an empty x-challenger header,
\* and when the response is not a 201 or is a 201 without an X-CHALLENGER
\* header it leaves the environment value and the .env entry as they were
\* and returns without raising.
C30_FailedGenerateKeepsToken ==
    \A i \in DOMAIN sent :
        IsGenerate(sent[i]) =>
            /\ WireHeader(sent[i], "x-challenger") = <<"">>
            /\ (/\ ~sent[i].reply.error
                /\ \/ sent[i].reply.status_code # 201
                   \/ ReplyToken(sent[i]) = <<>>)
                 => /\ sent[i].after = sent[i].before
                    /\ ~sent[i].raised

\* with t0 stored, a 200 naming t1 and a 201 naming nothing both left t0
C30_Witness ==
    /\ Len(sent) = 3
    /\ environ = <<"t0">> /\ dotenv = <<"t0">>
    /\ IsGenerate(sent[1]) /\ sent[1].reply.status_code = 200
    /\ ReplyToken(sent[1]) = <<"t1">>
    /\ sent[1].attached = <<"Failed to get token">>
    /\ IsGenerate(sent[2]) /\ sent[2].reply.status_code = 201
    /\ ReplyToken(sent[2]) = <<>> /\ ~sent[2].raised
    /\ sent[2].attached = <<"Header is missing">>
    /\ ~IsGenerate(sent[3]) /\ WireHeader(sent[3], "x-challenger") = <<"t0">>

====
